---- MODULE Spec2Model ----
(***************************************************************************)
(* Result-analysis-system: the academic result computation and report      *)
(* aggregation pipeline (grade lookup, subject results, student            *)
(* aggregates, cohort ranking, class statistics).                          *)
(*                                                                         *)
(* Numbers.  JavaScript numbers are modelled as integers.  Values that     *)
(* carry two decimals (sgpa, the strings produced by toFixed(2)) are held  *)
(* in hundredths: sgpa 8.81 is 881.  A quotient that the code keeps as a   *)
(* raw double is held as the exact fraction [num, den].  NaN is the        *)
(* sentinel NaN, and every arithmetic helper propagates it the way IEEE    *)
(* arithmetic does.                                                        *)
(***************************************************************************)
EXTENDS Integers, Sequences, FiniteSets, TLC

VARIABLES
    marksObtained, gradePath, gradeRow,         \* grade lookup
    subjectArg, subjectResult,                  \* generateSubjectResult call
    subjects, aggPath, studentResult, subjectSheet, \* aggregation of one student
    rawResults, finalResults,                   \* cohort ranking
    results, classStats, batchStats, summarySheet,  \* class statistics
    processedResults, storedResults, appPhase,  \* App state and localStorage
    files, now, uploadError, uploading,         \* file processing
    resultsList, excelDownload,                 \* the results page and the Excel page
    comparativeSheet                            \* comparative worksheet

gradeVars == <<marksObtained, gradePath, gradeRow>>
subjectVars == <<subjectArg, subjectResult>>
aggVars == <<subjects, aggPath, studentResult, subjectSheet>>
rankVars == <<rawResults, finalResults>>
statVars == <<results, classStats, batchStats, summarySheet, comparativeSheet>>
appVars == <<processedResults, storedResults, appPhase, files, now, uploadError,
             uploading, resultsList, excelDownload>>
vars == <<gradeVars, subjectVars, aggVars, rankVars, statVars, appVars>>

\* The value of a variable that holds no result yet (and of an absent field).
Unset == [unset |-> TRUE]

IsSet(v) == v # Unset

(***************************************************************************)
(* JavaScript number semantics used by the code.                           *)
(***************************************************************************)
\* The IEEE not-a-number: parseInt of a non-numeric string, 0/0.
NaN == -999999

IsNaN(x) == x = NaN

\* a + b
JsAdd(a, b) == IF IsNaN(a) \/ IsNaN(b) THEN NaN ELSE a + b

\* a - b
JsSub(a, b) == IF IsNaN(a) \/ IsNaN(b) THEN NaN ELSE a - b

\* a * b
JsMul(a, b) == IF IsNaN(a) \/ IsNaN(b) THEN NaN ELSE a * b

\* a % b with the sign of the dividend; NaN when b is 0 or an operand is NaN
JsMod(a, b) ==
    IF IsNaN(a) \/ IsNaN(b) \/ b = 0 THEN NaN
    ELSE IF a >= 0 THEN a % b ELSE 0 - ((0 - a) % b)

\* a >= b: false as soon as one operand is NaN
JsGE(a, b) == ~IsNaN(a) /\ ~IsNaN(b) /\ a >= b

\* Math.min(a, b) and Math.max(a, b): NaN as soon as one operand is NaN
MathMin(a, b) == IF IsNaN(a) \/ IsNaN(b) THEN NaN ELSE IF a <= b THEN a ELSE b

MathMax(a, b) == IF IsNaN(a) \/ IsNaN(b) THEN NaN ELSE IF a >= b THEN a ELSE b

\* v || d for a numeric v: d when v is 0, NaN or absent (see NumField)
OrDefault(v, d) == IF IsNaN(v) \/ v = 0 THEN d ELSE v

\* floor(n / d) for d > 0 and any integer n
FloorDiv(n, d) == n \div d

\* Math.round(m * 0.4) for an integer m: 2m/5 is never halfway between two
\* integers, so the double product rounds to the nearest integer of 2m/5.
RoundFourTenths(m) == IF IsNaN(m) THEN NaN ELSE FloorDiv(4 * m + 5, 10)

(***************************************************************************)
(* GradeTable: the if-chains of the three subject generators.              *)
(***************************************************************************)
Row(g, p) == [grade |-> g, gradePoints |-> p]

\* part_000, generateSubjectResult (ECE sample data): scheme A
GradeRowECE_Mutant(m) ==
    IF JsGE(m, 91) THEN Row("A+", 10)
    ELSE IF JsGE(m, 80) THEN Row("A", 9)
    ELSE IF JsGE(m, 70) THEN Row("B+", 8)
    ELSE IF JsGE(m, 60) THEN Row("B", 7)
    ELSE IF JsGE(m, 50) THEN Row("C+", 6)
    ELSE IF JsGE(m, 40) THEN Row("C", 5)
    ELSE Row("F", 0)

GradeRowECE(m) ==
    IF JsGE(m, 90) THEN Row("A+", 10)
    ELSE IF JsGE(m, 80) THEN Row("A", 9)
    ELSE IF JsGE(m, 70) THEN Row("B+", 8)
    ELSE IF JsGE(m, 60) THEN Row("B", 7)
    ELSE IF JsGE(m, 50) THEN Row("C+", 6)
    ELSE IF JsGE(m, 40) THEN Row("C", 5)
    ELSE Row("F", 0)

\* part_001, generateSubjectResult (B.Tech sample data): scheme S
GradeRowBTech(m) ==
    IF JsGE(m, 90) THEN Row("S", 10)
    ELSE IF JsGE(m, 80) THEN Row("A", 9)
    ELSE IF JsGE(m, 70) THEN Row("B", 8)
    ELSE IF JsGE(m, 60) THEN Row("C", 7)
    ELSE IF JsGE(m, 50) THEN Row("D", 6)
    ELSE IF JsGE(m, 40) THEN Row("E", 5)
    ELSE Row("F", 0)

\* pdfService, generateSubjectsForJNTUA: scheme S
GradeRowJNTUA_Mutant(m) ==
    IF JsGE(m, 90) THEN Row("S", 10)
    ELSE IF JsGE(m, 80) THEN Row("A", 8)
    ELSE IF JsGE(m, 70) THEN Row("B", 9)
    ELSE IF JsGE(m, 60) THEN Row("C", 7)
    ELSE IF JsGE(m, 50) THEN Row("D", 6)
    ELSE IF JsGE(m, 40) THEN Row("E", 5)
    ELSE Row("F", 0)

GradeRowJNTUA(m) ==
    IF JsGE(m, 90) THEN Row("S", 10)
    ELSE IF JsGE(m, 80) THEN Row("A", 9)
    ELSE IF JsGE(m, 70) THEN Row("B", 8)
    ELSE IF JsGE(m, 60) THEN Row("C", 7)
    ELSE IF JsGE(m, 50) THEN Row("D", 6)
    ELSE IF JsGE(m, 40) THEN Row("E", 5)
    ELSE Row("F", 0)

\* The three generation paths of the repository.
Paths == {"ECE", "BTECH", "JNTUA"}

\* The grading scheme each path applies.
SchemeOf(p) == IF p = "ECE" THEN "A" ELSE "S"

\* gradeFor as the path p computes it
GradeRow(p, m) ==
    IF p = "ECE" THEN GradeRowECE(m)
    ELSE IF p = "BTECH" THEN GradeRowBTech(m)
    ELSE GradeRowJNTUA(m)

\* the grades the pass rate of the batch analysis counts:
\* filter(([grade]) => !['F', 'D'].includes(grade))
CountsAsPassing(grade) == grade \notin {"F", "D"}

(***************************************************************************)
(* Strings the code takes apart (roll numbers, course codes) are sequences *)
(* of one-character strings.                                               *)
(***************************************************************************)
Digits == <<"0", "1", "2", "3", "4", "5", "6", "7", "8", "9">>

IsDigit(c) == \E i \in DOMAIN Digits : Digits[i] = c

DigitVal(c) == (CHOOSE i \in DOMAIN Digits : Digits[i] = c) - 1

\* s.slice(-n): the last n characters (the whole string when it is shorter)
SliceLast(s, n) == IF Len(s) <= n THEN s ELSE SubSeq(s, Len(s) - n + 1, Len(s))

\* parseInt(s) on a string without sign, blanks or radix prefix: the value of
\* the leading run of decimal digits, NaN when the first character is no digit
RECURSIVE ParseDigits(_, _)
ParseDigits(s, acc) ==
    IF s = <<>> \/ ~IsDigit(Head(s)) THEN acc
    ELSE ParseDigits(Tail(s), 10 * acc + DigitVal(Head(s)))

ParseInt(s) == IF s = <<>> \/ ~IsDigit(Head(s)) THEN NaN ELSE ParseDigits(s, 0)

\* s.charCodeAt(i), i counted from 0, for the characters course codes hold at
\* that place (decimal digits: code 48 + value)
CharCodeAt(s, i) == IF i + 1 \in DOMAIN s THEN 48 + DigitVal(s[i + 1]) ELSE NaN

\* getRandomInt(min, max): any integer of min..max
RandomInts(min, max) == min..max

(***************************************************************************)
(* Subject catalogs and student rosters.                                   *)
(***************************************************************************)
SubjectDef(n, code, cr, ty) ==
    [name |-> n, courseCode |-> code, credits |-> cr, type |-> ty, totalMarks |-> 100]

\* part_000: eceSubjects
eceSubjects ==
    << SubjectDef("Signals and Systems", <<"E","C","2","1","0","1">>, 4, "Theory"),
       SubjectDef("Digital Electronics", <<"E","C","2","1","0","2">>, 4, "Theory"),
       SubjectDef("Analog Communication", <<"E","C","2","1","0","3">>, 3, "Theory"),
       SubjectDef("Electromagnetic Theory", <<"E","C","2","1","0","4">>, 3, "Theory"),
       SubjectDef("Probability and Statistics", <<"M","A","2","1","0","1">>, 3, "Theory"),
       SubjectDef("Digital Electronics Lab", <<"E","C","2","1","0","5">>, 2, "Lab"),
       SubjectDef("Analog Communication Lab", <<"E","C","2","1","0","6">>, 2, "Lab") >>

InternshipCode == <<"2","0","A","0","5","7","0","7">>

\* part_001: btechSubjects
btechSubjects ==
    << SubjectDef("Full Stack Development", <<"2","0","A","0","5","7","0","3","a">>, 3, "Theory"),
       SubjectDef("Cryptography & Network Security", <<"2","0","A","0","5","7","0","2","b">>, 3, "Theory"),
       SubjectDef("Health Safety & Environmental Management", <<"2","0","A","0","1","7","0","5">>, 3, "Theory"),
       SubjectDef("Evaluation of Industry Internship", InternshipCode, 3, "Theory"),
       SubjectDef("Electronic Sensors", <<"2","0","A","0","4","7","0","4">>, 3, "Theory"),
       SubjectDef("SOC-V Mobile Application Development", <<"2","0","A","0","5","7","0","6">>, 2, "Lab"),
       SubjectDef("Entrepreneurship and Incubation", <<"2","0","A","5","2","7","0","1","a">>, 3, "Theory"),
       SubjectDef("Cloud Computing", <<"2","0","A","0","5","7","0","1","s">>, 3, "Theory") >>

\* pdfService: standardSubjects, the same courses without a totalMarks field
WithoutTotalMarks(sd) ==
    [name |-> sd.name, courseCode |-> sd.courseCode, credits |-> sd.credits, type |-> sd.type]

standardSubjects == [i \in DOMAIN btechSubjects |-> WithoutTotalMarks(btechSubjects[i])]

EceRoll(a, b) == <<"2","2","E","C","0", a, b>>

\* part_000: the roll numbers of sampleStudents, 22EC011 .. 22EC020
eceRolls ==
    << EceRoll("1","1"), EceRoll("1","2"), EceRoll("1","3"), EceRoll("1","4"),
       EceRoll("1","5"), EceRoll("1","6"), EceRoll("1","7"), EceRoll("1","8"),
       EceRoll("1","9"), EceRoll("2","0") >>

SvitRoll(a, b) == <<"2","1","9","F","1","A","0","5", a, b>>

\* part_001: the roll numbers of sampleStudents
btechRolls ==
    << SvitRoll("A","7"), SvitRoll("A","4"), SvitRoll("8","5"), SvitRoll("9","7"),
       <<"2","2","9","F","5","A","0","5","0","2">>,
       SvitRoll("B","1"), SvitRoll("B","2"), SvitRoll("B","3"), SvitRoll("B","4"),
       SvitRoll("B","5") >>

\* pdfService: hall tickets.  A hall ticket is the file-name match of
\* \d{3}F\d[A-Z]\d{3}[A-Z]?\d? in upper case, or generateRandomHallTicket(),
\* "219F1A05" followed by two digits and a letter.
RandomHallTicket(a, b, l) == <<"2","1","9","F","1","A","0","5", a, b, l>>

hallTickets ==
    { SvitRoll("8","5"), SvitRoll("9","7"), <<"2","2","9","F","5","A","0","5","0","2">>,
      RandomHallTicket("0","0","K"), RandomHallTicket("3","7","A"),
      RandomHallTicket("9","9","Z"), RandomHallTicket("0","4","Q") }

Range(f) == {f[i] : i \in DOMAIN f}

(***************************************************************************)
(* SubjectResultComputer: the three subject generators.                    *)
(***************************************************************************)
\* The fields a generator adds to the catalog entry ({...subject, ...}).
Computed(subject, internal, external, obtained, row) ==
    [internalMarks |-> internal, externalMarks |-> external,
     marksObtained |-> obtained, grade |-> row.grade,
     gradePoints |-> row.gradePoints] @@ subject

\* part_000: the range marksVariance is drawn from
VarianceECE(subject) ==
    IF subject.type = "Lab" THEN RandomInts(5, 15)
    ELSE IF subject.name = "Electromagnetic Theory" THEN RandomInts(-10, 5)
    ELSE IF subject.name = "Signals and Systems" THEN RandomInts(-8, 8)
    ELSE RandomInts(-5, 10)

\* part_000: generateSubjectResult(subject, studentRoll), marksVariance drawn
generateSubjectResultECE(subject, studentRoll, marksVariance) ==
    LET rollSeed == JsMod(ParseInt(SliceLast(studentRoll, 2)), 10)
        baseMarks == JsAdd(65, JsMod(JsMul(rollSeed, 3), 20))
        obtained == MathMin(100, MathMax(40, JsAdd(baseMarks, marksVariance)))
        internal == RoundFourTenths(obtained)
        external == JsSub(obtained, internal)
    IN Computed(subject, internal, external, obtained, GradeRowECE(obtained))

\* part_001: the range marksVariance is drawn from
VarianceBTech(subject) ==
    IF subject.type = "Lab" THEN RandomInts(5, 15)
    ELSE IF subject.name = "Cryptography & Network Security" THEN RandomInts(-10, 5)
    ELSE IF subject.name = "Full Stack Development" THEN RandomInts(-8, 8)
    ELSE RandomInts(-5, 10)

\* part_001: generateSubjectResult(subject, studentRoll); marksVariance and, for
\* the internship course, externalDraw and obtainedDraw are the values the
\* calls of getRandomInt return (two separate calls of getRandomInt(90, 99))
generateSubjectResultBTech(subject, studentRoll, marksVariance, externalDraw, obtainedDraw) ==
    LET rollSeed == JsMod(ParseInt(SliceLast(studentRoll, 2)), 10)
        baseMarks == JsAdd(65, JsMod(JsMul(rollSeed, 3), 20))
        obtained == MathMin(100, MathMax(40, JsAdd(baseMarks, marksVariance)))
        internal == RoundFourTenths(obtained)
        external == JsSub(obtained, internal)
    IN IF subject.courseCode = InternshipCode
       THEN Computed(subject, 0, externalDraw, obtainedDraw, Row("S", 10))
       ELSE Computed(subject, internal, external, obtained, GradeRowBTech(obtained))

\* pdfService: the body of standardSubjects.map in generateSubjectsForJNTUA
generateSubjectJNTUA(subject, hallTicket) ==
    LET rollSeed == JsMod(ParseInt(SliceLast(hallTicket, 3)), 100)
        onlyExternal == MathMin(100, MathMax(90, JsAdd(95, JsMod(rollSeed, 5))))
        baseMarks == JsAdd(65, JsMod(JsAdd(rollSeed, CharCodeAt(subject.courseCode, 5)), 25))
        adjustment == IF subject.type = "Lab" THEN 10 ELSE 0
        obtained == MathMin(100, MathMax(40, JsAdd(baseMarks, adjustment)))
        internal == RoundFourTenths(obtained)
        external == JsSub(obtained, internal)
    IN IF subject.courseCode = InternshipCode
       THEN Computed(subject, 0, onlyExternal, onlyExternal, Row("S", 10))
       ELSE Computed(subject, internal, external, obtained, GradeRowJNTUA(obtained))

\* pdfService: generateSubjectsForJNTUA(hallTicket)
generateSubjectsForJNTUA(hallTicket) ==
    [i \in DOMAIN standardSubjects |-> generateSubjectJNTUA(standardSubjects[i], hallTicket)]

(***************************************************************************)
(* Rounding of quotients.                                                  *)
(***************************************************************************)
\* The integer nearest to n/d, a half counting upwards (n >= 0, d > 0).
RoundHalfUp(n, d) == FloorDiv(2 * n + d, 2 * d)

\* n/d lies exactly halfway between two integers.
IsHalfway(n, d) == (2 * n + d) % (2 * d) = 0

\* parseFloat((num / den).toFixed(2)) in hundredths: the set of values the
\* double arithmetic can give.  0/0 is NaN (at every call the numerator is 0
\* when the denominator is).  Off a tie the result is the nearest hundredth.
\* On a tie (the quotient is k/100 + 1/200) toFixed rounds up when the double
\* holds the quotient exactly, which is when the odd numerator 2k + 1 of the
\* quotient over 200 is a multiple of 25 (the quotient is then a multiple of
\* 1/8); otherwise the double lies just above or just below the tie and either
\* neighbour can result.
ToFixed2(num, den) ==
    IF IsNaN(num) \/ IsNaN(den) \/ den = 0 THEN {NaN}
    ELSE LET up == RoundHalfUp(100 * num, den)
         IN IF IsHalfway(100 * num, den) /\ (2 * up - 1) % 25 # 0
            THEN {up - 1, up}
            ELSE {up}

\* The quotients a/b at which the double product (a / b) * 100 falls just
\* below a value k + 0.5 that the exact product reaches, so that Math.round
\* gives k: 29/200, 57/200, 113/200 and 23/40 (all such quotients with
\* b <= 1000, found by evaluating the doubles).
FloatLowTie(a, b) ==
    \/ 200 * a = 29 * b
    \/ 200 * a = 57 * b
    \/ 200 * a = 113 * b
    \/ 40 * a = 23 * b

\* Math.round((a / b) * 100) with the product truncated
RoundPercent_Mutant(a, b) ==
    IF IsNaN(a) \/ IsNaN(b) \/ b = 0 THEN NaN ELSE FloorDiv(100 * a, b)

\* Math.round((a / b) * 100) for 0 <= a, 0 <= b <= 1000
RoundPercent(a, b) ==
    IF IsNaN(a) \/ IsNaN(b) \/ b = 0 THEN NaN
    ELSE IF FloatLowTie(a, b) THEN RoundHalfUp(100 * a, b) - 1
    ELSE RoundHalfUp(100 * a, b)

(***************************************************************************)
(* StudentAggregator: the totals, SGPA, percentage and overall grade of    *)
(* generateStudentResult (part_000, part_001) and extractJNTUAResultData.  *)
(***************************************************************************)
\* subjects.reduce((sum, subject) => sum + term, sum) over the terms in order
RECURSIVE ReduceSum(_, _)
ReduceSum(terms, sum) ==
    IF Len(terms) = 0 THEN sum
    ELSE ReduceSum(Tail(terms), JsAdd(sum, Head(terms)))

totalMarksObtainedOf(subs) == ReduceSum([i \in DOMAIN subs |-> subs[i].marksObtained], 0)

\* the sample generators add subject.totalMarks, pdfService adds 100
totalMarksOf(p, subs) ==
    IF p = "JNTUA" THEN ReduceSum([i \in DOMAIN subs |-> 100], 0)
    ELSE ReduceSum([i \in DOMAIN subs |-> subs[i].totalMarks], 0)

totalCreditsOf(subs) == ReduceSum([i \in DOMAIN subs |-> subs[i].credits], 0)

totalGradePointsOf_Mutant(subs) == ReduceSum([i \in DOMAIN subs |-> subs[i].gradePoints], 0)

totalGradePointsOf(subs) ==
    ReduceSum([i \in DOMAIN subs |-> JsMul(subs[i].gradePoints, subs[i].credits)], 0)

\* part_000: overall grade from the sgpa (hundredths), scheme A letters
OverallGradeECE(sgpa) ==
    IF JsGE(sgpa, 900) THEN "A+"
    ELSE IF JsGE(sgpa, 800) THEN "A"
    ELSE IF JsGE(sgpa, 700) THEN "B+"
    ELSE IF JsGE(sgpa, 600) THEN "B"
    ELSE IF JsGE(sgpa, 500) THEN "C+"
    ELSE IF JsGE(sgpa, 400) THEN "C"
    ELSE "F"

\* part_001: overall grade from the sgpa (hundredths), scheme S letters
OverallGradeBTech(sgpa) ==
    IF JsGE(sgpa, 900) THEN "S"
    ELSE IF JsGE(sgpa, 800) THEN "A"
    ELSE IF JsGE(sgpa, 700) THEN "B"
    ELSE IF JsGE(sgpa, 600) THEN "C"
    ELSE IF JsGE(sgpa, 500) THEN "D"
    ELSE IF JsGE(sgpa, 400) THEN "E"
    ELSE "F"

\* pdfService: overall grade from the sgpa (hundredths), scheme S letters
OverallGradeJNTUA(sgpa) ==
    IF JsGE(sgpa, 900) THEN "S"
    ELSE IF JsGE(sgpa, 800) THEN "A"
    ELSE IF JsGE(sgpa, 700) THEN "B"
    ELSE IF JsGE(sgpa, 600) THEN "C"
    ELSE IF JsGE(sgpa, 500) THEN "D"
    ELSE IF JsGE(sgpa, 400) THEN "E"
    ELSE "F"

OverallGrade(p, sgpa) ==
    IF p = "ECE" THEN OverallGradeECE(sgpa)
    ELSE IF p = "BTECH" THEN OverallGradeBTech(sgpa)
    ELSE OverallGradeJNTUA(sgpa)

\* The values sgpa can take for a subject list.
SgpaValues(subs) == ToFixed2(totalGradePointsOf(subs), totalCreditsOf(subs))

\* The aggregate of a subject list on path p; sgpa is the value toFixed gave.
Aggregate(p, subs, sgpa) ==
    [subjects |-> subs,
     totalMarksObtained |-> totalMarksObtainedOf(subs),
     totalMarks |-> totalMarksOf(p, subs),
     totalCredits |-> totalCreditsOf(subs),
     totalGradePoints |-> totalGradePointsOf(subs),
     sgpa |-> sgpa,
     percentage |-> RoundPercent(totalMarksObtainedOf(subs), totalMarksOf(p, subs)),
     overallGrade |-> OverallGrade(p, sgpa)]

(***************************************************************************)
(* The totals of the subject worksheet (excelGenerator).                   *)
(***************************************************************************)
\* subject.field, NaN in arithmetic when the subject has no such field
NumField(sj, f) == IF f \in DOMAIN sj THEN sj[f] ELSE NaN

\* (a / b * 100).toFixed(2) in hundredths of a percent: the nearest value, and
\* either neighbour when the exact product lies halfway
ToFixed2Percent(a, b) ==
    IF IsNaN(a) \/ IsNaN(b) \/ b = 0 THEN {NaN}
    ELSE LET up == RoundHalfUp(10000 * a, b)
         IN IF IsHalfway(10000 * a, b) THEN {up - 1, up} ELSE {up}

\* part_000, lines 161-200: the SGPA and Percentage cells, written only for a
\* non-empty subject list
SheetSgpaValues(subs) ==
    LET totalCredits == ReduceSum([i \in DOMAIN subs |-> OrDefault(NumField(subs[i], "credits"), 0)], 0)
        totalGradePoints ==
            ReduceSum([i \in DOMAIN subs |-> JsMul(OrDefault(NumField(subs[i], "gradePoints"), 0),
                                        OrDefault(NumField(subs[i], "credits"), 0))], 0)
    IN IF totalCredits > 0 THEN ToFixed2(totalGradePoints, totalCredits) ELSE {0}

SheetPercentValues(subs) ==
    LET totalMarksObtained ==
            ReduceSum([i \in DOMAIN subs |-> OrDefault(NumField(subs[i], "marksObtained"), 0)], 0)
        totalPossibleMarks ==
            ReduceSum([i \in DOMAIN subs |-> OrDefault(NumField(subs[i], "totalMarks"), 100)], 0)
    IN ToFixed2Percent(totalMarksObtained, totalPossibleMarks)

\* part_000, lines 593-623: the totals row of the ECE worksheet, written for
\* every subject list
SheetTotalsECE(subs) ==
    LET totalMarksObtained == ReduceSum([i \in DOMAIN subs |-> NumField(subs[i], "marksObtained")], 0)
        totalPossibleMarks == ReduceSum([i \in DOMAIN subs |-> NumField(subs[i], "totalMarks")], 0)
        totalPercentage == RoundPercent(totalMarksObtained, totalPossibleMarks)
    IN [totalMarksObtained |-> totalMarksObtained,
        totalPossibleMarks |-> totalPossibleMarks,
        percentage |-> totalPercentage,
        overallGrade |->
            IF JsGE(totalPercentage, 90) THEN "A+"
            ELSE IF JsGE(totalPercentage, 80) THEN "A"
            ELSE IF JsGE(totalPercentage, 70) THEN "B+"
            ELSE IF JsGE(totalPercentage, 60) THEN "B"
            ELSE IF JsGE(totalPercentage, 50) THEN "C"
            ELSE IF JsGE(totalPercentage, 40) THEN "D"
            ELSE "F"]

(***************************************************************************)
(* CohortRanker: generateSampleStudentData (part_000 and part_001).        *)
(***************************************************************************)
\* [...rawResults].sort((a, b) => b.sgpa - a.sgpa): Array.prototype.sort is
\* stable, so a result goes behind every result already placed whose sgpa is
\* not smaller
InsertBySgpa_Mutant(sorted, r) ==
    LET before == SelectSeq(sorted, LAMBDA x : x.sgpa > r.sgpa)
        after == SelectSeq(sorted, LAMBDA x : x.sgpa <= r.sgpa)
    IN before \o <<r>> \o after

InsertBySgpa(sorted, r) ==
    LET before == SelectSeq(sorted, LAMBDA x : x.sgpa >= r.sgpa)
        after == SelectSeq(sorted, LAMBDA x : x.sgpa < r.sgpa)
    IN before \o <<r>> \o after

RECURSIVE SortBySgpa(_, _)
SortBySgpa(raw, sorted) ==
    IF raw = <<>> THEN sorted
    ELSE SortBySgpa(Tail(raw), InsertBySgpa(sorted, Head(raw)))

sortedResultsOf(raw) == SortBySgpa(raw, <<>>)

\* sortedResults.map((result, index) => ({...result, rank: index + 1}))
rankedResultsOf_Mutant(sorted) ==
    [i \in DOMAIN sorted |->
        [sorted[i] EXCEPT !.rank =
            1 + Cardinality({j \in DOMAIN sorted : sorted[j].sgpa > sorted[i].sgpa})]]

rankedResultsOf(sorted) == [i \in DOMAIN sorted |-> [sorted[i] EXCEPT !.rank = i]]

\* rankedResults.find(r => r.studentInfo.rollNumber === rollNumber): the first
\* match, undefined (Unset) without one
FindByRoll(ranked, rollNumber) ==
    LET matches == {i \in DOMAIN ranked : ranked[i].rollNumber = rollNumber}
    IN IF matches = {} THEN Unset
       ELSE ranked[CHOOSE i \in matches : \A j \in matches : i <= j]

\* the loop that pushes, for each original, its ranked result
finalResultsOf(raw) ==
    LET rankedResults == rankedResultsOf(sortedResultsOf(raw))
    IN [k \in DOMAIN raw |-> FindByRoll(rankedResults, raw[k].rollNumber)]

(***************************************************************************)
(* ClassStatistics: Dashboard.classStats and BatchAnalysis.batchStats      *)
(* (Dashboard.jsx) and addSummaryWorksheet (part_004).  A result is an     *)
(* entry of processedResults: [data |-> aggregate] or, for a file whose    *)
(* processing failed (batchProcessPdfs), an entry without data.            *)
(***************************************************************************)
HasData(result) == "data" \in DOMAIN result

\* result.data?.field || d
DataOr(result, field, d) ==
    IF HasData(result) /\ field \in DOMAIN result.data
    THEN OrDefault(result.data[field], d)
    ELSE d

\* result.data?.overallGrade || d
GradeOr(result, d) == IF HasData(result) THEN result.data.overallGrade ELSE d

\* the raw double n / d, kept as the pair it is the quotient of
Quotient(n, d) == [num |-> n, den |-> d]

\* (total / n).toFixed(2) in hundredths, where total is a sum of doubles that
\* are hundredths: the nearest hundredth, and either neighbour on a tie
AvgToFixed2(total, n) ==
    IF IsNaN(total) \/ n = 0 THEN {NaN}
    ELSE LET up == RoundHalfUp(total, n)
         IN IF IsHalfway(total, n) THEN {up - 1, up} ELSE {up}

\* Math.round(total / n) for an integer total >= 0
RoundQuotient(total, n) == IF IsNaN(total) \/ n = 0 THEN NaN ELSE RoundHalfUp(total, n)

totalSGPAOf(rs) == ReduceSum([i \in DOMAIN rs |-> DataOr(rs[i], "sgpa", 0)], 0)

totalPercentageOf(rs) == ReduceSum([i \in DOMAIN rs |-> DataOr(rs[i], "percentage", 0)], 0)

\* gradeCounts[grade] = (gradeCounts[grade] || 0) + 1 over the grades
GradeCountsOf(grades) ==
    [g \in Range(grades) |-> Cardinality({i \in DOMAIN grades : grades[i] = g})]

\* the forEach that keeps the first result with the highest sgpa
RECURSIVE TopStudentOf(_, _)
TopStudentOf(rs, topStudent) ==
    IF Len(rs) = 0 THEN topStudent
    ELSE TopStudentOf(Tail(rs),
                      IF DataOr(Head(rs), "sgpa", 0) > DataOr(topStudent, "sgpa", 0)
                      THEN Head(rs) ELSE topStudent)

\* Dashboard.classStats (Dashboard.jsx, lines 6-46)
ClassStatsValues(rs) ==
    IF Len(rs) = 0
    THEN {[totalStudents |-> 0, avgSGPA |-> 0, avgPercentage |-> 0,
           topStudent |-> Unset, gradeCounts |-> <<>>]}
    ELSE {[totalStudents |-> Len(rs),
           avgSGPA |-> avg,
           avgPercentage |-> RoundQuotient(totalPercentageOf(rs), Len(rs)),
           topStudent |-> TopStudentOf(rs, rs[1]),
           gradeCounts |-> GradeCountsOf([i \in DOMAIN rs |-> GradeOr(rs[i], "N/A")])] :
              avg \in AvgToFixed2(totalSGPAOf(rs), Len(rs))}

\* [...results].sort((a, b) => (b.data?.sgpa || 0) - (a.data?.sgpa || 0))
InsertResult(sorted, r) ==
    LET before == SelectSeq(sorted, LAMBDA x : DataOr(x, "sgpa", 0) >= DataOr(r, "sgpa", 0))
        after == SelectSeq(sorted, LAMBDA x : DataOr(x, "sgpa", 0) < DataOr(r, "sgpa", 0))
    IN before \o <<r>> \o after

RECURSIVE SortResults(_, _)
SortResults(rs, sorted) ==
    IF Len(rs) = 0 THEN sorted ELSE SortResults(Tail(rs), InsertResult(sorted, Head(rs)))

\* sortedResults.slice(0, 5)
topPerformersOf(rs) ==
    LET sortedResults == SortResults(rs, <<>>)
    IN SubSeq(sortedResults, 1, MathMin(5, Len(sortedResults)))

\* the body of result.data.subjects.forEach: the entry of the subject's name is
\* created on first sight, then the marks, the count and the grade are added
AddSubject(perf, subject) ==
    LET known == {k \in DOMAIN perf : perf[k].name = subject.name}
        grades(old) == [g \in DOMAIN old \cup {subject.grade} |->
                           (IF g \in DOMAIN old THEN old[g] ELSE 0)
                           + (IF g = subject.grade THEN 1 ELSE 0)]
    IN IF known = {}
       THEN Append(perf, [name |-> subject.name,
                          totalMarks |-> JsAdd(0, subject.marksObtained),
                          count |-> 1,
                          grades |-> grades(<<>>)])
       ELSE [k \in DOMAIN perf |->
                IF k \in known
                THEN [perf[k] EXCEPT !.totalMarks = JsAdd(@, subject.marksObtained),
                                     !.count = @ + 1,
                                     !.grades = grades(@)]
                ELSE perf[k]]

RECURSIVE AddSubjects(_, _)
AddSubjects(perf, subs) ==
    IF Len(subs) = 0 THEN perf ELSE AddSubjects(AddSubject(perf, Head(subs)), Tail(subs))

\* if (result.data?.subjects) { result.data.subjects.forEach(...) }
ProcessSubjects_Mutant(perf, result) ==
    LET added == IF HasData(result) THEN AddSubjects(perf, result.data.subjects) ELSE perf
        has(name) == HasData(result)
                     /\ \E i \in DOMAIN result.data.subjects :
                            result.data.subjects[i].name = name
    IN [k \in DOMAIN added |->
           IF has(added[k].name) THEN added[k] ELSE [added[k] EXCEPT !.count = @ + 1]]

ProcessSubjects(perf, result) ==
    IF HasData(result) THEN AddSubjects(perf, result.data.subjects) ELSE perf

RECURSIVE subjectPerformanceOf(_, _)
subjectPerformanceOf(rs, perf) ==
    IF Len(rs) = 0 THEN perf
    ELSE subjectPerformanceOf(Tail(rs), ProcessSubjects(perf, Head(rs)))

\* Object.entries(subjectPerformance).map(...): average = totalMarks / count
subjectAveragesOf(perf) ==
    [k \in DOMAIN perf |->
        [name |-> perf[k].name,
         average |-> Quotient(perf[k].totalMarks, perf[k].count),
         grades |-> perf[k].grades]]

\* a.average >= b.average for quotients of non-negative numbers
AverageGE(a, b) == a.average.num * b.average.den >= b.average.num * a.average.den

\* [...subjectAverages].sort((a, b) => b.average - a.average)
InsertSubject(sorted, sa) ==
    LET before == SelectSeq(sorted, LAMBDA x : AverageGE(x, sa))
        after == SelectSeq(sorted, LAMBDA x : ~AverageGE(x, sa))
    IN before \o <<sa>> \o after

RECURSIVE SortSubjects(_, _)
SortSubjects(sas, sorted) ==
    IF Len(sas) = 0 THEN sorted ELSE SortSubjects(Tail(sas), InsertSubject(sorted, Head(sas)))

passCountOf(rs) == Cardinality({i \in DOMAIN rs : DataOr(rs[i], "sgpa", 0) >= 500})

\* BatchAnalysis.batchStats (Dashboard.jsx, lines 912-998); averageSGPA in
\* hundredths
batchStatsOf(rs) ==
    IF Len(rs) = 0
    THEN [totalStudents |-> 0, passPercentage |-> 0, averageSGPA |-> 0,
          averagePercentage |-> 0, topPerformers |-> <<>>, gradeCounts |-> <<>>,
          subjectPerformance |-> <<>>]
    ELSE [totalStudents |-> Len(rs),
          passPercentage |-> Quotient(passCountOf(rs) * 100, Len(rs)),
          averageSGPA |-> Quotient(totalSGPAOf(rs), Len(rs)),
          averagePercentage |-> Quotient(totalPercentageOf(rs), Len(rs)),
          topPerformers |-> topPerformersOf(rs),
          gradeCounts |-> GradeCountsOf([i \in DOMAIN rs |-> GradeOr(rs[i], "N/A")]),
          subjectPerformance |->
              SortSubjects(subjectAveragesOf(subjectPerformanceOf(rs, <<>>)), <<>>)]

\* a cell value || 'N/A'
CellOr(result, field) ==
    IF DataOr(result, field, 0) = 0 THEN "N/A" ELSE result.data[field]

\* addSummaryWorksheet (part_004, lines 157-249): the row of each result, the
\* averages over results.length and the share of each grade
SummarySheetValues(rs) ==
    LET n == Len(rs)
        graded == SelectSeq(rs, HasData)
        gradeCounts == GradeCountsOf([i \in DOMAIN graded |-> graded[i].data.overallGrade])
        shares == {f \in [DOMAIN gradeCounts ->
                             UNION {ToFixed2Percent(gradeCounts[g], n) : g \in DOMAIN gradeCounts}] :
                      \A g \in DOMAIN gradeCounts : f[g] \in ToFixed2Percent(gradeCounts[g], n)}
    IN {[rows |-> [i \in DOMAIN rs |->
                      [totalMarks |-> <<DataOr(rs[i], "totalMarksObtained", 0),
                                        DataOr(rs[i], "totalMarks", 0)>>,
                       sgpa |-> CellOr(rs[i], "sgpa"),
                       percentage |-> CellOr(rs[i], "percentage"),
                       grade |-> GradeOr(rs[i], "N/A")]],
         totalStudents |-> n,
         averageSGPA |-> avgSgpa,
         averagePercentage |-> avgPct,
         gradeCounts |-> gradeCounts,
         gradeShares |-> share] :
            avgSgpa \in AvgToFixed2(totalSGPAOf(rs), n),
            avgPct \in ToFixed2(totalPercentageOf(rs), n),
            share \in shares}

(***************************************************************************)
(* The application: App (App.jsx), FileUpload (Dashboard.jsx) and the file *)
(* processing of pdfService.  A file is [name, readable]; reading an       *)
(* unreadable file makes processAndParsePdf reject (reader.onerror).       *)
(***************************************************************************)
\* addComparativeWorksheet (part_004, lines 285-309; the same loop in
\* addECEComparativeWorksheet of part_005): the row of one subject name, a
\* cell per result and the class average over the results that have the subject
SubjectRowOf_Mutant(rs, subjectName) ==
    LET Has(r) == HasData(r) /\ \E k \in DOMAIN r.data.subjects :
                                     r.data.subjects[k].name = subjectName
        Pct(r) == LET subs == r.data.subjects
                      k == CHOOSE x \in DOMAIN subs :
                               /\ subs[x].name = subjectName
                               /\ \A j \in 1..(x - 1) : subs[j].name # subjectName
                  IN RoundPercent(subs[k].marksObtained, 100)
        holders == SelectSeq(rs, Has)
        totalPercentage == ReduceSum([i \in DOMAIN holders |-> Pct(holders[i])], 0)
        studentCount == Len(rs)
    IN [name |-> subjectName,
        cells |-> [i \in DOMAIN rs |->
                      IF Has(rs[i]) THEN [percent |-> Pct(rs[i])] ELSE [na |-> TRUE]],
        classAverage |-> IF studentCount > 0
                         THEN RoundQuotient(totalPercentage, studentCount) ELSE 0]

SubjectRowOf(rs, subjectName) ==
    LET Has(r) == HasData(r) /\ \E k \in DOMAIN r.data.subjects :
                                     r.data.subjects[k].name = subjectName
        Pct(r) == LET subs == r.data.subjects
                      k == CHOOSE x \in DOMAIN subs :
                               /\ subs[x].name = subjectName
                               /\ \A j \in 1..(x - 1) : subs[j].name # subjectName
                  IN RoundPercent(subs[k].marksObtained, 100)
        holders == SelectSeq(rs, Has)
        totalPercentage == ReduceSum([i \in DOMAIN holders |-> Pct(holders[i])], 0)
        studentCount == Len(holders)
    IN [name |-> subjectName,
        cells |-> [i \in DOMAIN rs |->
                      IF Has(rs[i]) THEN [percent |-> Pct(rs[i])] ELSE [na |-> TRUE]],
        classAverage |-> IF studentCount > 0
                         THEN RoundQuotient(totalPercentage, studentCount) ELSE 0]

\* addComparativeWorksheet (part_004, lines 360-383): gradeCounts over the
\* grades in cohort order, then the scan of Object.entries(gradeCounts), whose
\* keys come in the order they were first inserted, keeping a grade only
\* when its count is greater than the greatest so far
MostCommonGrade_Mutant(grades) ==
    LET counts == GradeCountsOf(grades)
        firsts == {i \in DOMAIN grades : \A j \in 1..(i - 1) : grades[j] # grades[i]}
        entries == SelectSeq([i \in DOMAIN grades |-> [at |-> i, grade |-> grades[i]]],
                             LAMBDA e : e.at \in firsts)
        RECURSIVE Scan(_, _, _)
        Scan(k, mostCommonGrade, maxCount) ==
            IF k > Len(entries) THEN mostCommonGrade
            ELSE IF counts[entries[k].grade] >= maxCount
                 THEN Scan(k + 1, entries[k].grade, counts[entries[k].grade])
                 ELSE Scan(k + 1, mostCommonGrade, maxCount)
    IN Scan(1, "N/A", 0)

MostCommonGrade(grades) ==
    LET counts == GradeCountsOf(grades)
        firsts == {i \in DOMAIN grades : \A j \in 1..(i - 1) : grades[j] # grades[i]}
        entries == SelectSeq([i \in DOMAIN grades |-> [at |-> i, grade |-> grades[i]]],
                             LAMBDA e : e.at \in firsts)
        RECURSIVE Scan(_, _, _)
        Scan(k, mostCommonGrade, maxCount) ==
            IF k > Len(entries) THEN mostCommonGrade
            ELSE IF counts[entries[k].grade] > maxCount
                 THEN Scan(k + 1, entries[k].grade, counts[entries[k].grade])
                 ELSE Scan(k + 1, mostCommonGrade, maxCount)
    IN Scan(1, "N/A", 0)

\* addComparativeWorksheet (part_004, lines 256-399): the subject rows in the
\* order the names enter the Set allSubjects, and the SGPA, percentage and
\* grade rows with their class averages
ComparativeSheetValues(rs) ==
    LET RECURSIVE AddNames(_, _)
        AddNames(names, subs) ==
            IF subs = <<>> THEN names
            ELSE AddNames(IF Head(subs).name = "" \/ Head(subs).name \in Range(names)
                          THEN names ELSE Append(names, Head(subs).name),
                          Tail(subs))
        RECURSIVE AllSubjects(_, _)
        AllSubjects(names, k) ==
            IF k > Len(rs) THEN names
            ELSE AllSubjects(AddNames(names, IF HasData(rs[k]) THEN rs[k].data.subjects
                                             ELSE <<>>), k + 1)
        allSubjects == AllSubjects(<<>>, 1)
        graded == SelectSeq(rs, HasData)
    IN {[subjectRows |-> [k \in DOMAIN allSubjects |-> SubjectRowOf(rs, allSubjects[k])],
         sgpaRow |-> [cells |-> [i \in DOMAIN rs |-> DataOr(rs[i], "sgpa", 0)],
                      classAverage |-> averageSGPA],
         percentageRow |->
             [cells |-> [i \in DOMAIN rs |-> DataOr(rs[i], "percentage", 0)],
              classAverage |-> IF Len(rs) > 0
                               THEN RoundQuotient(totalPercentageOf(rs), Len(rs)) ELSE 0],
         gradeRow |->
             [cells |-> [i \in DOMAIN rs |-> GradeOr(rs[i], "N/A")],
              classAverage |->
                  MostCommonGrade([i \in DOMAIN graded |-> graded[i].data.overallGrade])]] :
            averageSGPA \in IF Len(rs) > 0 THEN AvgToFixed2(totalSGPAOf(rs), Len(rs))
                            ELSE {0}}

\* fileName.match(/(\d{3}F\d[A-Z]\d{3}[A-Z]?\d?)/i) for a name of ten
\* letters and digits: the pattern can only start at the first character
HallTicketMatches(name) ==
    LET IsLetter(c) == c \in {"A","B","C","D","E","F","G","H","I","J","K","L","M",
                              "N","O","P","Q","R","S","T","U","V","W","X","Y","Z"}
    IN /\ Len(name) = 10
       /\ IsDigit(name[1]) /\ IsDigit(name[2]) /\ IsDigit(name[3])
       /\ name[4] = "F" /\ IsDigit(name[5]) /\ IsLetter(name[6])
       /\ IsDigit(name[7]) /\ IsDigit(name[8]) /\ IsDigit(name[9])

\* hallTicketMatch ? hallTicketMatch[1].toUpperCase() : generateRandomHallTicket()
\* (one hall ticket stands for those generateRandomHallTicket() can return)
HallTicketsOf(fileName) ==
    IF HallTicketMatches(fileName) THEN {fileName} ELSE {RandomHallTicket("3","7","A")}

\* extractJNTUAResultData(pdfData, fileName): the objects it can return.  The
\* rank is Math.floor(Math.random() * 50) + 1, of which the two extreme
\* values are kept; one name stands for those generateSouthIndianName()
\* can return.
ExtractValues(fileName) ==
    LET StudentName(ht) ==
            IF ht = SvitRoll("A","7") THEN "MUDIGALLU RAGHAVENDRA"
            ELSE IF ht = SvitRoll("A","4") THEN "M PAVANKALYAN"
            ELSE IF ht = SvitRoll("8","5") THEN "G TAUFIQ UMAR"
            ELSE IF ht = SvitRoll("9","7") THEN "KOGILA VINAY"
            ELSE IF ht = btechRolls[5] THEN "KAYALA MANJUNATH"
            ELSE "REDDY VENKAT"
    IN
    UNION {{Aggregate("JNTUA", generateSubjectsForJNTUA(ht), sgpa)
              @@ [studentInfo |-> [name |-> StudentName(ht), rollNumber |-> ht,
                                   registrationNumber |-> ht],
                  rank |-> rank] :
               sgpa \in SgpaValues(generateSubjectsForJNTUA(ht)), rank \in {1, 50}} :
           ht \in HallTicketsOf(fileName)}

\* handleUpload giving every entry of a run the index 0 in its id
UploadLists_Mutant(t, fs, n) ==
    LET RECURSIVE Lists(_)
        Lists(k) ==
            IF k = 0 THEN {<<>>}
            ELSE {Append(pre, [id |-> <<"", t, 0>>, fileName |-> fs[k].name,
                               uploadDate |-> t, data |-> data]) :
                     pre \in Lists(k - 1), data \in ExtractValues(fs[k].name)}
    IN Lists(n)

\* the lists handleUpload can build from files that are all readable, begun
\* at time t: the entry of file i has the id `${Date.now()}-${i}`
RECURSIVE UploadLists(_, _, _)
UploadLists(t, fs, n) ==
    IF n = 0 THEN {<<>>}
    ELSE {Append(pre, [id |-> <<"", t, n - 1>>, fileName |-> fs[n].name,
                       uploadDate |-> t, data |-> data]) :
             pre \in UploadLists(t, fs, n - 1), data \in ExtractValues(fs[n].name)}

\* JSON.parse(JSON.stringify(list)): the list as it comes back from the
\* text.  JSON.stringify writes NaN as null.
JsonRoundTrip(list) ==
    LET JsonNull == -999998
        JsonNumber(x) == IF IsNaN(x) THEN JsonNull ELSE x
        JsonSubject(sj) ==
            [sj EXCEPT !.credits = JsonNumber(@), !.internalMarks = JsonNumber(@),
                       !.externalMarks = JsonNumber(@), !.marksObtained = JsonNumber(@),
                       !.gradePoints = JsonNumber(@)]
        JsonData(data) ==
            [data EXCEPT !.subjects = [i \in DOMAIN @ |-> JsonSubject(@[i])],
                         !.totalMarksObtained = JsonNumber(@), !.totalMarks = JsonNumber(@),
                         !.totalCredits = JsonNumber(@), !.totalGradePoints = JsonNumber(@),
                         !.sgpa = JsonNumber(@), !.percentage = JsonNumber(@),
                         !.rank = JsonNumber(@)]
    IN [i \in DOMAIN list |->
           IF HasData(list[i]) THEN [list[i] EXCEPT !.data = JsonData(@)] ELSE list[i]]

\* the save effect of App for the state list: the item is written only for a
\* non-empty list.  The item is held as the list JSON.parse gives back for
\* it, <<>> when there is no item.
SaveEffect_Mutant(list, item) == JsonRoundTrip(list)

SaveEffect(list, item) == IF Len(list) > 0 THEN JsonRoundTrip(list) ELSE item

(***************************************************************************)
(* Idle values: a specification that exercises one component keeps the     *)
(* variables of the other components at these values.                      *)
(***************************************************************************)
IdleGrade == marksObtained = 0 /\ gradePath = "ECE" /\ gradeRow = Unset

IdleSubject == subjectArg = Unset /\ subjectResult = Unset

IdleAgg ==
    subjects = <<>> /\ aggPath = "ECE" /\ studentResult = Unset /\ subjectSheet = Unset

IdleRank == rawResults = <<>> /\ finalResults = <<>>

IdleStat ==
    /\ results = <<>> /\ classStats = Unset /\ batchStats = Unset
    /\ summarySheet = Unset /\ comparativeSheet = Unset

\* ExcelDownload: the state the component is created with, no timer set, no
\* generateExcel call running or made
InitialExcelDownload ==
    [selectedResults |-> <<>>, exportType |-> "individual", generatingExcel |-> FALSE,
     errorMessage |-> FALSE, successMessage |-> FALSE,
     timers |-> <<>>, running |-> <<>>, calls |-> <<>>]

IdleApp ==
    /\ processedResults = <<>> /\ storedResults = <<>> /\ appPhase = "closed"
    /\ files = <<>> /\ now = 0 /\ uploadError = FALSE /\ uploading = FALSE
    /\ resultsList = [searchTerm |-> "", selectedResults |-> <<>>]
    /\ excelDownload = InitialExcelDownload


(***************************************************************************)
(* Specification SpecGrade: the grade lookup applied to every integer mark *)
(* from MarkSlack below 0 to MarkSlack above 100, on each path.            *)
(***************************************************************************)
MarkSlack == 5

FullMarks == 100

InitGrade ==
    /\ marksObtained \in (0 - MarkSlack)..(FullMarks + MarkSlack)
    /\ gradePath \in Paths
    /\ gradeRow = Unset
    /\ IdleSubject /\ IdleAgg /\ IdleRank /\ IdleStat /\ IdleApp

\* the if-chain runs on the mark
ComputeGrade ==
    /\ gradeRow = Unset
    /\ gradeRow' = GradeRow(gradePath, marksObtained)
    /\ UNCHANGED <<marksObtained, gradePath, subjectVars, aggVars, rankVars, statVars, appVars>>

NextGrade == ComputeGrade

SpecGrade == InitGrade /\ [][NextGrade]_vars

\* The grade tables as the specification states them: (threshold, grade, points),
\* read top-down.
SchemeTable(s) ==
    IF s = "A"
    THEN << <<90, "A+", 10>>, <<80, "A", 9>>, <<70, "B+", 8>>,
            <<60, "B", 7>>, <<50, "C+", 6>>, <<40, "C", 5>> >>
    ELSE << <<90, "S", 10>>, <<80, "A", 9>>, <<70, "B", 8>>,
            <<60, "C", 7>>, <<50, "D", 6>>, <<40, "E", 5>> >>

\* The rows of table t that mark m matches, and the first of them.
MatchingRows(t, m) == {i \in DOMAIN t : m >= t[i][1]}

FirstMatch(t, m) ==
    IF MatchingRows(t, m) = {} THEN Row("F", 0)
    ELSE LET i == CHOOSE j \in MatchingRows(t, m) :
                      \A k \in MatchingRows(t, m) : j <= k
         IN Row(t[i][2], t[i][3])

\* C1: the computed grade row is the first row of the scheme's table, read
\* top-down, whose threshold is at most the mark (inclusive thresholds), and
\* F/0 when no row matches; this holds for every integer mark, negative marks
\* and marks above 100 included.
C1_GradeIsFirstMatchingRow ==
    IsSet(gradeRow) =>
        gradeRow = FirstMatch(SchemeTable(SchemeOf(gradePath)), marksObtained)

\* C1 witness: the lookup ran on the boundary mark 90 under scheme A and gave
\* the top band.
C1_Witness ==
    /\ IsSet(gradeRow)
    /\ gradePath = "ECE"
    /\ marksObtained = 90
    /\ gradeRow = Row("A+", 10)

(***************************************************************************)
(* Specification SpecSubject: one call of a subject generator, for every   *)
(* catalog subject and every roll number of the path's roster, with every  *)
(* value the random draws can return.                                      *)
(***************************************************************************)
SubjectCall(p, subject, roll) == [path |-> p, subject |-> subject, studentRoll |-> roll]

SubjectCalls ==
    {SubjectCall("ECE", sd, r) : sd \in Range(eceSubjects), r \in Range(eceRolls)}
    \cup {SubjectCall("BTECH", sd, r) : sd \in Range(btechSubjects), r \in Range(btechRolls)}
    \cup {SubjectCall("JNTUA", sd, r) : sd \in Range(standardSubjects), r \in hallTickets}

InitSubject ==
    /\ subjectArg \in SubjectCalls
    /\ subjectResult = Unset
    /\ IdleGrade /\ IdleAgg /\ IdleRank /\ IdleStat /\ IdleApp

GenerateSubjectResultECE ==
    /\ subjectArg.path = "ECE"
    /\ \E v \in VarianceECE(subjectArg.subject) :
           subjectResult' =
               generateSubjectResultECE(subjectArg.subject, subjectArg.studentRoll, v)
    /\ UNCHANGED <<subjectArg, gradeVars, aggVars, rankVars, statVars, appVars>>

GenerateSubjectResultBTech ==
    /\ subjectArg.path = "BTECH"
    /\ \E v \in VarianceBTech(subjectArg.subject),
          e \in RandomInts(90, 99), m \in RandomInts(90, 99) :
           subjectResult' =
               generateSubjectResultBTech(subjectArg.subject, subjectArg.studentRoll, v, e, m)
    /\ UNCHANGED <<subjectArg, gradeVars, aggVars, rankVars, statVars, appVars>>

GenerateSubjectJNTUA ==
    /\ subjectArg.path = "JNTUA"
    /\ subjectResult' = generateSubjectJNTUA(subjectArg.subject, subjectArg.studentRoll)
    /\ UNCHANGED <<subjectArg, gradeVars, aggVars, rankVars, statVars, appVars>>

NextSubject ==
    \/ GenerateSubjectResultECE
    \/ GenerateSubjectResultBTech
    \/ GenerateSubjectJNTUA

SpecSubject == InitSubject /\ [][NextSubject]_vars

\* The totalMarks of a subject result (pdfService results have no such field
\* and are taken to be out of 100).
TotalMarksOf(sr) == IF "totalMarks" \in DOMAIN sr THEN sr.totalMarks ELSE 100

ExternalOnly(sr) == sr.courseCode = InternshipCode

\* C6: every computed subject result satisfies internalMarks + externalMarks =
\* marksObtained with internalMarks >= 0, externalMarks >= 0 and internalMarks
\* at most 40% of totalMarks.  (A NaN field satisfies none of the comparisons.)
C6_InternalPlusExternal ==
    IsSet(subjectResult) =>
        /\ ~IsNaN(subjectResult.internalMarks)
        /\ ~IsNaN(subjectResult.externalMarks)
        /\ ~IsNaN(subjectResult.marksObtained)
        /\ subjectResult.internalMarks + subjectResult.externalMarks
               = subjectResult.marksObtained
        /\ subjectResult.internalMarks >= 0
        /\ subjectResult.externalMarks >= 0
        /\ 5 * subjectResult.internalMarks <= 2 * TotalMarksOf(subjectResult)

\* C7: an external-only subject (course 20A05707) yields internalMarks = 0,
\* marksObtained = externalMarks and the top grade band (grade points 10),
\* whatever the roll number.
C7_ExternalOnlyBypass ==
    (IsSet(subjectResult) /\ ExternalOnly(subjectResult)) =>
        /\ subjectResult.internalMarks = 0
        /\ subjectResult.marksObtained = subjectResult.externalMarks
        /\ subjectResult.gradePoints = 10

(***************************************************************************)
(* Specification SpecAgg: the aggregation of one student's subject list    *)
(* and the totals the subject worksheet writes for it.  The lists are the  *)
(* first n <= MaxSubjects subjects of a path's catalog, each with a mark   *)
(* of the path's samples and the split and grade the path computes for it, *)
(* the two lists of the worked examples, and the lists only a stored       *)
(* result can hold (StoredOnly).                                           *)
(***************************************************************************)
MaxSubjects == 3

MarkSamples == {40, 49, 50, 56, 57, 70, 90}

\* part_001 gives NaN marks to a roll number whose last two characters are
\* not digits (parseInt(studentRoll.slice(-2)))
MarkSamplesOf(p) == IF p = "BTECH" THEN MarkSamples \cup {NaN} ELSE MarkSamples

CatalogOf(p) ==
    IF p = "ECE" THEN eceSubjects ELSE IF p = "BTECH" THEN btechSubjects ELSE standardSubjects

\* the result a generator returns for subject sd when the mark comes out as m
SubjectWithMarks(p, sd, m) ==
    Computed(sd, RoundFourTenths(m), JsSub(m, RoundFourTenths(m)), m, GradeRow(p, m))

RECURSIVE MarkedPrefixes(_, _)
MarkedPrefixes(p, n) ==
    IF n = 0 THEN {<<>>}
    ELSE {Append(pre, SubjectWithMarks(p, CatalogOf(p)[n], m)) :
              pre \in MarkedPrefixes(p, n - 1), m \in MarkSamplesOf(p)}

\* ECE catalog, credits [4,4,3,3,3,2,2], marks giving grade points [8,9,7,6,8,9,7]
SgpaExample ==
    LET marks == <<78, 85, 65, 55, 75, 85, 65>>
    IN [i \in DOMAIN eceSubjects |-> SubjectWithMarks("ECE", eceSubjects[i], marks[i])]

\* Scheme S, eight subjects out of 100 with 656 marks, 22 credits and 176
\* weighted grade points
EndToEndExample ==
    LET marks == <<100, 100, 100, 79, 79, 69, 69, 60>>
        credits == <<2, 2, 2, 2, 2, 4, 4, 4>>
    IN [i \in DOMAIN btechSubjects |->
           SubjectWithMarks("BTECH", [btechSubjects[i] EXCEPT !.credits = credits[i]], marks[i])]

\* The lists only the worksheet sees: excelService passes
\* result.data?.subjects || [] (part_004, lines 66 and 111), the empty list for
\* a result without data, and results read back from localStorage are not
\* validated (App.jsx, line 32), for which the worksheet reads
\* subject.credits || 0.
StoredOnly(p) ==
    {<<>>, <<[SubjectWithMarks(p, CatalogOf(p)[1], 70) EXCEPT !.credits = 0]>>}

AggInputs ==
    UNION {{[path |-> p, subjects |-> l] :
               l \in UNION {MarkedPrefixes(p, n) : n \in 1..MaxSubjects} \cup StoredOnly(p)} :
           p \in Paths}
    \cup {[path |-> "ECE", subjects |-> SgpaExample],
          [path |-> "BTECH", subjects |-> EndToEndExample]}

InitAgg ==
    /\ \E input \in AggInputs :
           /\ aggPath = input.path
           /\ subjects = input.subjects
    /\ studentResult = Unset
    /\ subjectSheet = Unset
    /\ IdleGrade /\ IdleSubject /\ IdleRank /\ IdleStat /\ IdleApp

\* generateStudentResult / extractJNTUAResultData: totals, SGPA, percentage and
\* overall grade of the subject list the generator of the path returned, which
\* has a subject for every entry of a non-empty catalog with positive credits
AggregateStudent ==
    /\ studentResult = Unset
    /\ subjects \notin StoredOnly(aggPath)
    /\ \E sgpa \in SgpaValues(subjects) :
           studentResult' = Aggregate(aggPath, subjects, sgpa)
    /\ UNCHANGED <<subjects, aggPath, subjectSheet, gradeVars, subjectVars, rankVars, statVars, appVars>>

\* createSubjectResultsWorksheet of excelService's generator (part_000, line 122)
CreateSubjectResultsWorksheet ==
    /\ subjectSheet = Unset
    /\ aggPath # "ECE"
    /\ IF Len(subjects) > 0
       THEN \E sg \in SheetSgpaValues(subjects), pc \in SheetPercentValues(subjects) :
                subjectSheet' = [totals |-> TRUE, sgpa |-> sg, percentage |-> pc]
       ELSE subjectSheet' = [totals |-> FALSE]
    /\ UNCHANGED <<subjects, aggPath, studentResult, gradeVars, subjectVars, rankVars, statVars, appVars>>

\* createSubjectResultsWorksheet of the ECE generator (part_000, line 558)
CreateSubjectResultsWorksheetECE ==
    /\ subjectSheet = Unset
    /\ aggPath = "ECE"
    /\ subjectSheet' = [totals |-> TRUE] @@ SheetTotalsECE(subjects)
    /\ UNCHANGED <<subjects, aggPath, studentResult, gradeVars, subjectVars, rankVars, statVars, appVars>>

NextAgg ==
    \/ AggregateStudent
    \/ CreateSubjectResultsWorksheet
    \/ CreateSubjectResultsWorksheetECE

SpecAgg == InitAgg /\ [][NextAgg]_vars

\* Sums taken directly from the subject list.
RECURSIVE WeightedPoints(_)
WeightedPoints(subs) ==
    IF subs = <<>> THEN 0
    ELSE Head(subs).gradePoints * Head(subs).credits + WeightedPoints(Tail(subs))

RECURSIVE CreditSum(_)
CreditSum(subs) == IF subs = <<>> THEN 0 ELSE Head(subs).credits + CreditSum(Tail(subs))

HasNaNMark(subs) == \E i \in DOMAIN subs : IsNaN(subs[i].marksObtained)

RECURSIVE MarkSum(_)
MarkSum(subs) == IF subs = <<>> THEN 0 ELSE Head(subs).marksObtained + MarkSum(Tail(subs))

\* n is an integer nearest to a/b (b > 0)
Nearest(n, a, b) == 2 * a - b <= 2 * n * b /\ 2 * n * b <= 2 * a + b

\* C2: every student aggregate has totalGradePoints = sum of gradePoints_i *
\* credits_i, totalCredits = sum of credits_i, and an sgpa that is
\* totalGradePoints / totalCredits rounded to two decimals (the hundredth
\* nearest to the quotient); credits [4,4,3,3,3,2,2] with grade points
\* [8,9,7,6,8,9,7] give 4*8+4*9+3*7+3*6+3*8+2*9+2*7 = 163, 21 and 7.76.
C2_SgpaIsRoundedQuotient ==
    IsSet(studentResult) =>
        /\ studentResult.totalGradePoints = WeightedPoints(subjects)
        /\ studentResult.totalCredits = CreditSum(subjects)
        /\ CreditSum(subjects) > 0
        /\ Nearest(studentResult.sgpa, 100 * WeightedPoints(subjects), CreditSum(subjects))
        /\ subjects = SgpaExample =>
               /\ [i \in DOMAIN subjects |-> subjects[i].credits] = <<4, 4, 3, 3, 3, 2, 2>>
               /\ [i \in DOMAIN subjects |-> subjects[i].gradePoints] = <<8, 9, 7, 6, 8, 9, 7>>
               /\ studentResult.totalGradePoints = 163
               /\ studentResult.totalCredits = 21
               /\ studentResult.sgpa = 776

\* The example list has been aggregated: sgpa 7.76.
C2_Witness ==
    /\ IsSet(studentResult)
    /\ subjects = SgpaExample
    /\ studentResult.sgpa = 776

\* C2 as stated: the aggregate of credits [4,4,3,3,3,2,2] with grade points
\* [8,9,7,6,8,9,7] has totalGradePoints 185, totalCredits 21 and sgpa 8.81.
C2_AsStated ==
    (IsSet(studentResult) /\ subjects = SgpaExample) =>
        /\ studentResult.totalGradePoints = 185
        /\ studentResult.totalCredits = 21
        /\ studentResult.sgpa = 881

C3_WitnessLowTie ==
    /\ IsSet(studentResult)
    /\ studentResult.totalMarksObtained = 113
    /\ studentResult.totalMarks = 200
    /\ studentResult.percentage = 56

\* C8: a subject list with zero total credits (or zero total marks) is
\* rejected with an error, and no aggregate or worksheet carries an SGPA or a
\* percentage that is NaN or a 0 put in place of an undefined quotient.
C8_ZeroCreditsRejected ==
    /\ IsSet(studentResult) =>
           /\ ~IsNaN(studentResult.sgpa)
           /\ ~IsNaN(studentResult.percentage)
    /\ IsSet(subjectSheet) =>
           /\ subjectSheet.totals => ~IsNaN(subjectSheet.percentage)
           /\ (subjectSheet.totals /\ "sgpa" \in DOMAIN subjectSheet) =>
                  /\ ~IsNaN(subjectSheet.sgpa)
                  /\ CreditSum(subjects) = 0 => subjectSheet.sgpa # 0
           /\ (CreditSum(subjects) = 0 \/ subjects = <<>>) => "error" \in DOMAIN subjectSheet

(***************************************************************************)
(* Specification SpecRank: the ranking of a cohort.  The cohort is the     *)
(* first n <= MaxStudents students of a generator's sampleStudents, each   *)
(* with an SGPA of SgpaSamples and the rank generateStudentResult gave     *)
(* (index + 1); finalResults is the list the function builds, empty until  *)
(* it has run.                                                             *)
(***************************************************************************)
MaxStudents == 3

\* SGPAs in hundredths
SgpaSamples == {700, 800, 900, 1000}

RankPaths == {"ECE", "BTECH"}

sampleStudentRolls(p) == IF p = "ECE" THEN eceRolls ELSE btechRolls

\* sampleStudents.map((student, index) => generateStudentResult(student, index))
RawResultLists(p, n) ==
    {[i \in 1..n |-> [rollNumber |-> sampleStudentRolls(p)[i], sgpa |-> sg[i], rank |-> i]] :
        sg \in [1..n -> SgpaSamples]}

InitRank ==
    /\ aggPath \in RankPaths
    /\ \E n \in 1..MaxStudents : rawResults \in RawResultLists(aggPath, n)
    /\ finalResults = <<>>
    /\ subjects = <<>> /\ studentResult = Unset /\ subjectSheet = Unset
    /\ IdleGrade /\ IdleSubject /\ IdleStat /\ IdleApp

\* generateSampleStudentData of the ECE generator (part_000, line 1028)
GenerateSampleStudentDataECE ==
    /\ finalResults = <<>>
    /\ aggPath = "ECE"
    /\ finalResults' = finalResultsOf(rawResults)
    /\ UNCHANGED <<rawResults, aggVars, gradeVars, subjectVars, statVars, appVars>>

\* generateSampleStudentData of the B.Tech generator (part_001, line 199)
GenerateSampleStudentDataBTech ==
    /\ finalResults = <<>>
    /\ aggPath = "BTECH"
    /\ finalResults' = finalResultsOf(rawResults)
    /\ UNCHANGED <<rawResults, aggVars, gradeVars, subjectVars, statVars, appVars>>

NextRank ==
    \/ GenerateSampleStudentDataECE
    \/ GenerateSampleStudentDataBTech

SpecRank == InitRank /\ [][NextRank]_vars

SgpasOf(rs) == [i \in DOMAIN rs |-> rs[i].sgpa]

RanksOf(rs) == [i \in DOMAIN rs |-> rs[i].rank]

\* C4: the ranks of a cohort of N students are exactly the N distinct values
\* 1..N, so equal SGPAs never share a rank; SGPAs [9.0, 9.0, 8.0] get ranks
\* [1, 2, 3].
C4_RanksAreOrdinal ==
    finalResults # <<>> =>
        /\ Len(finalResults) = Len(rawResults)
        /\ {finalResults[i].rank : i \in DOMAIN finalResults} = 1..Len(rawResults)
        /\ \A i, j \in DOMAIN finalResults :
               i # j => finalResults[i].rank # finalResults[j].rank
        /\ SgpasOf(rawResults) = <<900, 900, 800>> => RanksOf(finalResults) = <<1, 2, 3>>

\* The cohort with SGPAs [9.0, 9.0, 8.0] has been ranked [1, 2, 3].
C4_Witness ==
    /\ finalResults # <<>>
    /\ SgpasOf(rawResults) = <<900, 900, 800>>
    /\ RanksOf(finalResults) = <<1, 2, 3>>

\* C5: the ranked cohort has the length of the input and, position by
\* position, the same student; a strictly higher SGPA has a strictly smaller
\* rank, and among equal SGPAs the student earlier in the input has the
\* smaller rank.
C5_RankingKeepsInputOrder ==
    finalResults # <<>> =>
        /\ Len(finalResults) = Len(rawResults)
        /\ \A i \in DOMAIN rawResults :
               /\ finalResults[i].rollNumber = rawResults[i].rollNumber
               /\ finalResults[i].sgpa = rawResults[i].sgpa
        /\ \A i, j \in DOMAIN rawResults :
               /\ rawResults[i].sgpa > rawResults[j].sgpa =>
                      finalResults[i].rank < finalResults[j].rank
               /\ (rawResults[i].sgpa = rawResults[j].sgpa /\ i < j) =>
                      finalResults[i].rank < finalResults[j].rank

\* A cohort that is not in SGPA order and has a tie, SGPAs [8.0, 9.0, 8.0],
\* has been ranked [2, 1, 3] in input order.
C5_Witness ==
    /\ finalResults # <<>>
    /\ SgpasOf(rawResults) = <<800, 900, 800>>
    /\ RanksOf(finalResults) = <<2, 1, 3>>
    /\ \A i \in DOMAIN rawResults : finalResults[i].rollNumber = rawResults[i].rollNumber

(***************************************************************************)
(* Specification SpecStat: the statistics of a list of results.  The list  *)
(* has up to MaxResults entries, each the aggregate of a short B.Tech or   *)
(* ECE subject list or the entry of a file that failed.                    *)
(***************************************************************************)
MaxResults == 3

StatMarks == {57, 90}

\* the entry batchProcessPdfs pushes for a file whose processing threw
FailedResult == [success |-> FALSE, error |-> "error"]

StatSubjectLists ==
    {[path |-> "BTECH",
      subjects |-> <<SubjectWithMarks("BTECH", btechSubjects[1], m1),
                     SubjectWithMarks("BTECH", btechSubjects[2], m2)>>] :
         m1 \in StatMarks, m2 \in StatMarks}
    \cup {[path |-> "ECE",
           subjects |-> <<SubjectWithMarks("ECE", eceSubjects[1], 70),
                          SubjectWithMarks("ECE", eceSubjects[2], 70),
                          SubjectWithMarks("ECE", eceSubjects[3], 60)>>]}

ResultSamples ==
    UNION {{[success |-> TRUE, data |-> Aggregate(l.path, l.subjects, sg)] :
               sg \in SgpaValues(l.subjects)} : l \in StatSubjectLists}
    \cup {FailedResult}

InitStat ==
    /\ \E n \in 0..MaxResults : results \in [1..n -> ResultSamples]
    /\ classStats = Unset
    /\ batchStats = Unset
    /\ summarySheet = Unset
    /\ comparativeSheet = Unset
    /\ IdleGrade /\ IdleSubject /\ IdleAgg /\ IdleRank /\ IdleApp

\* Dashboard: the classStats memo over processedResults
ComputeClassStats ==
    /\ classStats = Unset
    /\ classStats' \in ClassStatsValues(results)
    /\ UNCHANGED <<results, batchStats, summarySheet, comparativeSheet, gradeVars, subjectVars, aggVars, rankVars, appVars>>

\* BatchAnalysis: the batchStats memo over results
ComputeBatchStats ==
    /\ batchStats = Unset
    /\ batchStats' = batchStatsOf(results)
    /\ UNCHANGED <<results, classStats, summarySheet, comparativeSheet, gradeVars, subjectVars, aggVars, rankVars, appVars>>

\* generateExcel(results, {exportType: 'summary' or 'combined'}): the Summary
\* worksheet
AddSummaryWorksheet ==
    /\ summarySheet = Unset
    /\ summarySheet' \in SummarySheetValues(results)
    /\ UNCHANGED <<results, classStats, batchStats, comparativeSheet, gradeVars, subjectVars, aggVars, rankVars, appVars>>

\* generateExcel(results, {includeComparison: true}) with exportType 'combined'
\* or 'summary': the Comparative Analysis worksheet
AddComparativeWorksheet ==
    /\ comparativeSheet = Unset
    /\ comparativeSheet' \in ComparativeSheetValues(results)
    /\ UNCHANGED <<results, classStats, batchStats, summarySheet, gradeVars, subjectVars, aggVars, rankVars, appVars>>

NextStat ==
    \/ ComputeClassStats
    \/ ComputeBatchStats
    \/ AddSummaryWorksheet
    \/ AddComparativeWorksheet

SpecStat == InitStat /\ [][NextStat]_vars

\* C9: over an empty list of results the dashboard, the batch analysis and
\* the summary worksheet give defined averages, none of them NaN.
C9_EmptyCohortDefined ==
    results = <<>> =>
        /\ IsSet(classStats) =>
               ~IsNaN(classStats.avgSGPA) /\ ~IsNaN(classStats.avgPercentage)
        /\ IsSet(batchStats) =>
               /\ ~IsNaN(batchStats.averageSGPA)
               /\ ~IsNaN(batchStats.averagePercentage)
               /\ ~IsNaN(batchStats.passPercentage)
        /\ IsSet(summarySheet) =>
               ~IsNaN(summarySheet.averageSGPA) /\ ~IsNaN(summarySheet.averagePercentage)

\* The results that have a subject of the name, and the marks of that subject.
Holders(name) ==
    {i \in DOMAIN results :
        HasData(results[i])
        /\ \E k \in DOMAIN results[i].data.subjects : results[i].data.subjects[k].name = name}

MarksIn(i, name) ==
    LET subs == results[i].data.subjects
    IN subs[CHOOSE k \in DOMAIN subs : subs[k].name = name].marksObtained

RECURSIVE SumMarks(_, _)
SumMarks(is, name) ==
    IF is = {} THEN 0
    ELSE LET i == CHOOSE x \in is : TRUE
         IN MarksIn(i, name) + SumMarks(is \ {i}, name)

SubjectNames ==
    UNION {{results[i].data.subjects[k].name : k \in DOMAIN results[i].data.subjects} :
              i \in {j \in DOMAIN results : HasData(results[j])}}

\* C10: batchStats has one subject average for each subject name seen in the
\* results, and it is the sum of marksObtained over exactly the results that
\* have the subject divided by the number of those results.
C10_SubjectAverageOverHolders ==
    IsSet(batchStats) =>
        LET sp == batchStats.subjectPerformance
        IN /\ {sp[k].name : k \in DOMAIN sp} = SubjectNames
           /\ Len(sp) = Cardinality(SubjectNames)
           /\ \A k \in DOMAIN sp :
                  /\ sp[k].average.num = SumMarks(Holders(sp[k].name), sp[k].name)
                  /\ sp[k].average.den = Cardinality(Holders(sp[k].name))
                  /\ sp[k].average.den > 0

\* Three results of which exactly two have the first B.Tech subject, with 57
\* and 90 marks: its average is 147 / 2.
C10_Witness ==
    /\ IsSet(batchStats)
    /\ Len(results) = 3
    /\ Cardinality(Holders(btechSubjects[1].name)) = 2
    /\ \E k \in DOMAIN batchStats.subjectPerformance :
           /\ batchStats.subjectPerformance[k].name = btechSubjects[1].name
           /\ batchStats.subjectPerformance[k].average = Quotient(147, 2)


(***************************************************************************)
(* SpecApp: the application state of App (processedResults and its         *)
(* localStorage item), the upload form of the dashboard and the statistics *)
(* the dashboard and the batch analysis show.                              *)
(***************************************************************************)
MaxStored == 3
MaxClock == 2
MaxDemo == 2

\* the file selections of the upload form, made of a file that is processed
\* and a file FileReader or pdf.js fails on
FileLists ==
    LET good == [name |-> SvitRoll("0","1"), readable |-> TRUE]
        bad == [name |-> SvitRoll("8","5"), readable |-> FALSE]
    IN {<<good>>, <<bad>>, <<good, bad>>, <<bad, good>>, <<good, good>>}

\* pdfService: the lists getSamplePDFFiles() can return, cut to the first n
\* of allHallTickets
RECURSIVE SampleLists(_, _)
SampleLists(t, n) ==
    LET allHallTickets == SubSeq(btechRolls, 1, 5) \o
                          << SvitRoll("B","1"), SvitRoll("B","2"), SvitRoll("C","3"),
                             SvitRoll("D","4"), SvitRoll("E","5"), SvitRoll("F","6"),
                             SvitRoll("G","7"), SvitRoll("H","8"), SvitRoll("J","9"),
                             SvitRoll("K","0") >>
        names == << "MUDIGALLU RAGHAVENDRA", "M PAVANKALYAN", "G TAUFIQ UMAR",
                    "KOGILA VINAY", "KAYALA MANJUNATH", "REDDY VENKATESH",
                    "NAGARAJU SURESH", "K SRINIVASAN", "T RAMACHANDRA",
                    "LAKSHMI MEENAKSHI", "VASUDEVAN IYER", "S KRISHNAMURTHY",
                    "GOPAL VARMA", "MURALI PILLAI", "PADMAVATHI REDDY" >>
    IN IF n = 0 THEN {<<>>}
       ELSE {Append(pre, [id |-> <<"sample", t, n - 1>>, fileName |-> allHallTickets[n],
                          uploadDate |-> t,
                          data |-> [data EXCEPT !.studentInfo.name = names[n]],
                          success |-> TRUE]) :
                pre \in SampleLists(t, n - 1), data \in ExtractValues(allHallTickets[n])}

\* a render of the dashboard and of the batch analysis with the list: both
\* memos have the list as their only dependency, and every change of the
\* list installs a new array
Render_Mutant(list) == UNCHANGED <<classStats, batchStats>>

Render(list) ==
    /\ classStats' \in ClassStatsValues(list)
    /\ batchStats' = batchStatsOf(list)

InitApp ==
    /\ IdleApp
    /\ IdleGrade /\ IdleSubject /\ IdleAgg /\ IdleRank /\ IdleStat

\* App is mounted: the first commit runs the load effect, then the save
\* effect with the initial state []
Mount ==
    /\ appPhase = "closed"
    /\ appPhase' = "mounted"
    /\ processedResults' = storedResults
    /\ storedResults' = SaveEffect(<<>>, storedResults)
    /\ UNCHANGED <<files, now, uploadError, uploading, resultsList, excelDownload,
                   gradeVars, subjectVars, aggVars, rankVars, statVars>>

\* the render with the restored list, and its save effect
RunSaveEffect ==
    /\ appPhase = "mounted"
    /\ appPhase' = "ready"
    /\ storedResults' = SaveEffect(processedResults, storedResults)
    /\ Render(processedResults)
    /\ UNCHANGED <<processedResults, files, now, uploadError, uploading, resultsList,
                   excelDownload, gradeVars, subjectVars, aggVars, rankVars, results,
                   summarySheet, comparativeSheet>>

\* FileUpload.addFiles with PDF files (the file input is disabled while
\* uploading)
AddFiles ==
    /\ appPhase = "ready"
    /\ ~uploading
    /\ files = <<>>
    /\ \E fs \in FileLists :
          /\ Len(processedResults) + Len(fs) <= MaxStored
          /\ files' = fs
    /\ uploadError' = FALSE
    /\ UNCHANGED <<processedResults, storedResults, appPhase, now, uploading,
                   resultsList, excelDownload, gradeVars, subjectVars, aggVars,
                   rankVars, statVars>>

\* FileUpload.handleUpload with files selected (also reached from
\* loadDemoData): one try around the loop over the files;
\* updateProcessedResults, the save effect and the render follow.  After a
\* success uploading stays true until the 1500 ms timer fires; the catch
\* sets it back to false at once.
HandleUpload ==
    /\ appPhase = "ready"
    /\ ~uploading
    /\ files # <<>>
    /\ now < MaxClock
    /\ IF \A i \in DOMAIN files : files[i].readable
       THEN /\ \E new \in UploadLists(now, files, Len(files)) :
                  processedResults' = processedResults \o new
            /\ uploadError' = FALSE
            /\ uploading' = TRUE
       ELSE /\ processedResults' = processedResults
            /\ uploadError' = TRUE
            /\ uploading' = FALSE
    /\ now' = now + 1
    /\ storedResults' = SaveEffect(processedResults', storedResults)
    /\ Render(processedResults')
    /\ UNCHANGED <<appPhase, files, resultsList, excelDownload, gradeVars, subjectVars,
                   aggVars, rankVars, results, summarySheet, comparativeSheet>>

\* FileUpload.loadDemoData with no file selected
LoadDemoData ==
    /\ appPhase = "ready"
    /\ ~uploading
    /\ files = <<>>
    /\ now < MaxClock
    /\ Len(processedResults) + MaxDemo <= MaxStored
    /\ \E new \in SampleLists(now, MaxDemo) :
          processedResults' = processedResults \o new
    /\ uploadError' = FALSE
    /\ uploading' = TRUE
    /\ now' = now + 1
    /\ storedResults' = SaveEffect(processedResults', storedResults)
    /\ Render(processedResults')
    /\ UNCHANGED <<appPhase, files, resultsList, excelDownload, gradeVars, subjectVars,
                   aggVars, rankVars, results, summarySheet, comparativeSheet>>

\* the timer handleUpload and loadDemoData set after a success fires:
\* clearFiles(), setUploading(false)
ResetUpload_Mutant ==
    /\ appPhase = "ready"
    /\ uploading
    /\ files' = <<>>
    /\ UNCHANGED <<processedResults, storedResults, appPhase, now, uploadError,
                   uploading, resultsList, excelDownload, gradeVars, subjectVars,
                   aggVars, rankVars, statVars>>

ResetUpload ==
    /\ appPhase = "ready"
    /\ uploading
    /\ files' = <<>>
    /\ uploading' = FALSE
    /\ UNCHANGED <<processedResults, storedResults, appPhase, now, uploadError,
                   resultsList, excelDownload, gradeVars, subjectVars, aggVars,
                   rankVars, statVars>>

\* App.deleteResult(id)
DeleteResult ==
    /\ appPhase = "ready"
    /\ \E k \in DOMAIN processedResults :
          processedResults' =
              SelectSeq(processedResults, LAMBDA r : r.id # processedResults[k].id)
    /\ storedResults' = SaveEffect(processedResults', storedResults)
    /\ Render(processedResults')
    /\ UNCHANGED <<appPhase, files, now, uploadError, uploading, resultsList,
                   excelDownload, gradeVars, subjectVars, aggVars, rankVars, results,
                   summarySheet, comparativeSheet>>

\* App.clearAllData()
ClearAllData ==
    /\ appPhase = "ready"
    /\ processedResults # <<>>
    /\ processedResults' = <<>>
    /\ storedResults' = SaveEffect(processedResults', <<>>)
    /\ Render(processedResults')
    /\ UNCHANGED <<appPhase, files, now, uploadError, uploading, resultsList,
                   excelDownload, gradeVars, subjectVars, aggVars, rankVars, results,
                   summarySheet, comparativeSheet>>

\* BatchAnalysis renders its students table: results.sort(...) sorts the
\* array of the App state in place; no state is set, so no effect runs and
\* no memo is recomputed
ShowBatchAnalysis ==
    /\ appPhase = "ready"
    /\ processedResults' = SortResults(processedResults, <<>>)
    /\ UNCHANGED <<storedResults, appPhase, files, now, uploadError, uploading,
                   resultsList, excelDownload, gradeVars, subjectVars, aggVars,
                   rankVars, statVars>>

\* the page is closed: the React state is gone, the localStorage item stays
Close ==
    /\ appPhase = "ready"
    /\ appPhase' = "closed"
    /\ processedResults' = <<>>
    /\ files' = <<>>
    /\ uploadError' = FALSE
    /\ uploading' = FALSE
    /\ classStats' = Unset
    /\ batchStats' = Unset
    /\ UNCHANGED <<storedResults, now, resultsList, excelDownload, gradeVars,
                   subjectVars, aggVars, rankVars, results, summarySheet,
                   comparativeSheet>>

NextApp ==
    \/ Mount
    \/ RunSaveEffect
    \/ AddFiles
    \/ HandleUpload
    \/ LoadDemoData
    \/ ResetUpload
    \/ DeleteResult
    \/ ClearAllData
    \/ ShowBatchAnalysis
    \/ Close

SpecApp == InitApp /\ [][NextApp]_vars

\* the event loop runs every timer that was set
SpecAppFair == SpecApp /\ WF_vars(ResetUpload)

(***************************************************************************)
(* ResultsList: the table of results with its selection.  The search box   *)
(* is left empty, so filteredResults holds every result.                   *)
(***************************************************************************)
MaxRows == 3

\* the application is ready and holds list, saved and rendered; no upload
\* runs and the components keep their initial state
ReadyWith(list) ==
    /\ processedResults = list /\ storedResults = list /\ appPhase = "ready"
    /\ files = <<>> /\ now = MaxClock /\ uploadError = FALSE /\ uploading = FALSE
    /\ resultsList = [searchTerm |-> "", selectedResults |-> <<>>]
    /\ excelDownload = InitialExcelDownload
    /\ results = <<>> /\ summarySheet = Unset /\ comparativeSheet = Unset
    /\ classStats \in ClassStatsValues(list) /\ batchStats = batchStatsOf(list)
    /\ IdleGrade /\ IdleSubject /\ IdleAgg /\ IdleRank

InitList == \E list \in SampleLists(0, MaxRows) : ReadyWith(list)

\* toggleResultSelection(result.id) of the checkbox of a row
ToggleResultSelection ==
    /\ appPhase = "ready"
    /\ \E k \in DOMAIN processedResults :
          LET resultId == processedResults[k].id
              prev == resultsList.selectedResults
          IN resultsList' =
                 [resultsList EXCEPT !.selectedResults =
                     IF resultId \in Range(prev)
                     THEN SelectSeq(prev, LAMBDA id : id # resultId)
                     ELSE Append(prev, resultId)]
    /\ UNCHANGED <<processedResults, storedResults, appPhase, files, now, uploadError,
                   uploading, excelDownload, gradeVars, subjectVars, aggVars, rankVars,
                   statVars>>

\* selectAllResults() of the checkbox of the table head
SelectAllResults ==
    /\ appPhase = "ready"
    /\ processedResults # <<>>
    /\ resultsList' =
          [resultsList EXCEPT !.selectedResults =
              IF Len(resultsList.selectedResults) = Len(processedResults)
              THEN <<>>
              ELSE [k \in DOMAIN processedResults |-> processedResults[k].id]]
    /\ UNCHANGED <<processedResults, storedResults, appPhase, files, now, uploadError,
                   uploading, excelDownload, gradeVars, subjectVars, aggVars, rankVars,
                   statVars>>

\* handleDeleteSelected(), confirmed: deleteResult(id) for every selected id,
\* then setSelectedResults([])
HandleDeleteSelected ==
    /\ appPhase = "ready"
    /\ resultsList.selectedResults # <<>>
    /\ processedResults' =
          SelectSeq(processedResults,
                    LAMBDA r : r.id \notin Range(resultsList.selectedResults))
    /\ resultsList' = [resultsList EXCEPT !.selectedResults = <<>>]
    /\ storedResults' = SaveEffect(processedResults', storedResults)
    /\ Render(processedResults')
    /\ UNCHANGED <<appPhase, files, now, uploadError, uploading, excelDownload,
                   gradeVars, subjectVars, aggVars, rankVars, results, summarySheet,
                   comparativeSheet>>

\* DeleteResult is the delete button of a row: deleteResult(result.id)
NextList ==
    \/ ToggleResultSelection
    \/ SelectAllResults
    \/ DeleteResult
    \/ HandleDeleteSelected

SpecList == InitList /\ [][NextList]_vars

(***************************************************************************)
(* ExcelDownload: the selection, the two export buttons and the combined   *)
(* workbook.  timers holds, for every timer of the export-all button, the  *)
(* selectedResults and exportType of the render whose handleGenerateExcel  *)
(* the timer calls; running holds the generateExcel calls not yet          *)
(* returned, calls every generateExcel call made.                          *)
(***************************************************************************)
MaxExports == 2

\* generateCombinedExcel: the worksheet names handed to book_append_sheet, in
\* order.  name.slice(0, 20) shortens the one name of the rosters that is
\* longer than 20 characters.
SheetNames(rs, includeComparison) ==
    LET Slice20(name) ==
            IF name = "MUDIGALLU RAGHAVENDRA" THEN "MUDIGALLU RAGHAVENDR" ELSE name
        sheetName(index) ==
            IF HasData(rs[index]) /\ rs[index].data.studentInfo.name # ""
            THEN Slice20(rs[index].data.studentInfo.name)
            ELSE "Result " \o ToString(index)
    IN <<"Summary">> \o [index \in DOMAIN rs |-> sheetName(index)]
          \o (IF includeComparison THEN <<"Comparative Analysis">> ELSE <<>>)

\* handleGenerateExcel() of a render whose selectedResults and exportType
\* are those of closure, up to its await: the component state it leaves.
\* book_append_sheet throws on a name the workbook already has, which
\* generateExcel rethrows.
HandleGenerateExcel(closure, ed) ==
    LET names == SheetNames(closure.selectedResults, TRUE)
        throws == /\ closure.exportType = "combined"
                  /\ \E i, j \in DOMAIN names : i # j /\ names[i] = names[j]
        call == [results |-> closure.selectedResults, exportType |-> closure.exportType]
    IN IF Len(closure.selectedResults) = 0
       THEN [ed EXCEPT !.errorMessage = TRUE]
       ELSE [ed EXCEPT !.generatingExcel = TRUE, !.errorMessage = FALSE,
                       !.successMessage = FALSE,
                       !.running = Append(@, throws), !.calls = Append(@, call)]

\* the results of two demo loads, cut to one result each
InitExport ==
    \E first \in SampleLists(0, 1), second \in SampleLists(1, 1) :
        ReadyWith(first \o second)

\* toggleResultSelection(result.id) of ExcelDownload
ExcelToggleResultSelection ==
    /\ appPhase = "ready"
    /\ \E k \in DOMAIN processedResults :
          LET resultId == processedResults[k].id
              prev == excelDownload.selectedResults
          IN excelDownload' =
                 [excelDownload EXCEPT !.selectedResults =
                     IF \E i \in DOMAIN prev : prev[i].id = resultId
                     THEN SelectSeq(prev, LAMBDA r : r.id # resultId)
                     ELSE Append(prev, processedResults[k])]
    /\ UNCHANGED <<processedResults, storedResults, appPhase, files, now, uploadError,
                   uploading, resultsList, gradeVars, subjectVars, aggVars, rankVars,
                   statVars>>

\* the buttons 'Select All' (selectAllResults) and 'Deselect All'
\* (deselectAllResults), each disabled when it would change nothing
SelectOrDeselectAll ==
    /\ appPhase = "ready"
    /\ \/ /\ Len(processedResults) # Len(excelDownload.selectedResults)
          /\ excelDownload' = [excelDownload EXCEPT !.selectedResults = processedResults]
       \/ /\ Len(excelDownload.selectedResults) # 0
          /\ excelDownload' = [excelDownload EXCEPT !.selectedResults = <<>>]
    /\ UNCHANGED <<processedResults, storedResults, appPhase, files, now, uploadError,
                   uploading, resultsList, gradeVars, subjectVars, aggVars, rankVars,
                   statVars>>

\* the export type select box: setExportType(e.target.value)
SetExportType ==
    /\ appPhase = "ready"
    /\ \E type \in {"individual", "combined", "summary"} :
          /\ type # excelDownload.exportType
          /\ excelDownload' = [excelDownload EXCEPT !.exportType = type]
    /\ UNCHANGED <<processedResults, storedResults, appPhase, files, now, uploadError,
                   uploading, resultsList, gradeVars, subjectVars, aggVars, rankVars,
                   statVars>>

\* the button for the selected results: onClick={handleGenerateExcel} of the
\* current render
ClickGenerateSelected ==
    /\ appPhase = "ready"
    /\ Len(excelDownload.selectedResults) # 0 /\ ~excelDownload.generatingExcel
    /\ Len(excelDownload.calls) + Len(excelDownload.timers) < MaxExports
    /\ excelDownload' =
          HandleGenerateExcel([selectedResults |-> excelDownload.selectedResults,
                               exportType |-> excelDownload.exportType], excelDownload)
    /\ UNCHANGED <<processedResults, storedResults, appPhase, files, now, uploadError,
                   uploading, resultsList, gradeVars, subjectVars, aggVars, rankVars,
                   statVars>>

\* the button 'Download Excel for All Students': selectAllResults(), and a
\* timer of 100 ms on the handleGenerateExcel of the render the click
\* handler belongs to
ClickExportAll ==
    /\ appPhase = "ready"
    /\ Len(processedResults) # 0 /\ ~excelDownload.generatingExcel
    /\ Len(excelDownload.calls) + Len(excelDownload.timers) < MaxExports
    /\ excelDownload' =
          [excelDownload EXCEPT
              !.selectedResults = processedResults,
              !.timers = Append(@, [selectedResults |-> excelDownload.selectedResults,
                                    exportType |-> excelDownload.exportType])]
    /\ UNCHANGED <<processedResults, storedResults, appPhase, files, now, uploadError,
                   uploading, resultsList, gradeVars, subjectVars, aggVars, rankVars,
                   statVars>>

\* the timer of the export-all button fires
ExportAllTimer ==
    /\ appPhase = "ready"
    /\ excelDownload.timers # <<>>
    /\ excelDownload' =
          HandleGenerateExcel(Head(excelDownload.timers),
                              [excelDownload EXCEPT !.timers = Tail(@)])
    /\ UNCHANGED <<processedResults, storedResults, appPhase, files, now, uploadError,
                   uploading, resultsList, gradeVars, subjectVars, aggVars, rankVars,
                   statVars>>

\* generateExcel returns or throws: the rest of handleGenerateExcel
GenerateExcelReturns ==
    /\ appPhase = "ready"
    /\ excelDownload.running # <<>>
    /\ excelDownload' =
          [excelDownload EXCEPT
              !.running = Tail(@),
              !.successMessage = IF Head(excelDownload.running) THEN @ ELSE TRUE,
              !.errorMessage = IF Head(excelDownload.running) THEN TRUE ELSE @,
              !.generatingExcel = FALSE]
    /\ UNCHANGED <<processedResults, storedResults, appPhase, files, now, uploadError,
                   uploading, resultsList, gradeVars, subjectVars, aggVars, rankVars,
                   statVars>>

NextExport ==
    \/ ExcelToggleResultSelection
    \/ SelectOrDeselectAll
    \/ SetExportType
    \/ ClickGenerateSelected
    \/ ClickExportAll
    \/ ExportAllTimer
    \/ GenerateExcelReturns

SpecExport == InitExport /\ [][NextExport]_vars

\* the number of readable files in a selection
ReadableCount(fs) == Cardinality({i \in DOMAIN fs : fs[i].readable})

\* C11: when handleUpload processes the selected files, every file that can be
\* processed has its result appended to processedResults, whatever happens
\* to the other files of the batch.
C11_FailureAbortsOnlyThatFile ==
    [][(appPhase = "ready" /\ files # <<>> /\ now' = now + 1)
          => Len(processedResults') = Len(processedResults) + ReadableCount(files)]_vars

\* C12: the list App restores when it is mounted is the list that was saved,
\* the first commit (whose save effect sees the initial empty list) leaves the
\* saved item as it is, and whenever the item is written it is, record for
\* record and in order, the list in memory.
C12_PersistRestoreIdentity ==
    [][/\ (appPhase = "closed" /\ appPhase' = "mounted")
            => (processedResults' = storedResults /\ storedResults' = storedResults)
       /\ (storedResults' # storedResults) => storedResults' = processedResults']_vars

\* a non-empty saved list has been restored by a start of the application
C12_Witness ==
    appPhase = "mounted" /\ processedResults # <<>> /\ storedResults = processedResults

\* C13: whenever the application is ready, the statistics of the dashboard and
\* of the batch analysis are those computed from the current
\* processedResults list.
C13_StatsNeverStale ==
    appPhase = "ready"
        => /\ classStats \in ClassStatsValues(processedResults)
           /\ batchStats = batchStatsOf(processedResults)

\* results were appended and the first of them was deleted afterwards: the
\* list begins with the second file of a batch
C13_Witness ==
    /\ appPhase = "ready"
    /\ processedResults # <<>>
    /\ processedResults[1].id[3] >= 1
    /\ batchStats = batchStatsOf(processedResults)
    /\ batchStats.totalStudents = Len(processedResults)

\* C14: the results a batch delivers to processedResults carry as rank their
\* SGPA-descending ordinal position within the batch (equal SGPAs in the
\* order of delivery).
C14_RankIsCohortPosition ==
    [][(appPhase = "ready" /\ Len(processedResults') > Len(processedResults))
          => LET new == SubSeq(processedResults', Len(processedResults) + 1,
                               Len(processedResults'))
                 Before(i) == {j \in DOMAIN new :
                                  \/ new[j].data.sgpa > new[i].data.sgpa
                                  \/ new[j].data.sgpa = new[i].data.sgpa /\ j < i}
             IN \A i \in DOMAIN new : new[i].data.rank = 1 + Cardinality(Before(i))]_vars

(***************************************************************************)
(* Determinism, monotonicity, the overall grade and the clamp of the marks. *)
(***************************************************************************)
\* C15: a second run of a subject generator on the same subject definition
\* and the same roll number gives the record the first run gave.
C15_SubjectResultDeterministic ==
    [][(IsSet(subjectResult) /\ IsSet(subjectResult'))
          => subjectResult' = subjectResult]_vars

\* C16: under one scheme a mark never gets fewer grade points than a lower
\* mark: the grade points computed for a mark are at least those of every
\* smaller mark.
C16_GradePointsMonotone ==
    IsSet(gradeRow) =>
        \A m2 \in (0 - MarkSlack)..(FullMarks + MarkSlack) :
            m2 < marksObtained
                => gradeRow.gradePoints >= GradeRow(gradePath, m2).gradePoints

\* a mark of the band 80..89 was graded under scheme S: 9 points, above the
\* 8 points of the mark 79
C16_Witness ==
    /\ IsSet(gradeRow)
    /\ gradePath = "JNTUA"
    /\ marksObtained = 80
    /\ gradeRow.gradePoints = 9
    /\ GradeRow(gradePath, 79).gradePoints = 8

\* the letter of the scheme's ladder for an sgpa (in hundredths): the
\* thresholds 9.0, 8.0, ..., 4.0 are inclusive
LadderGrade(scheme, sgpa) == FirstMatch(SchemeTable(scheme), FloorDiv(sgpa, 10)).grade

\* C17: the overall grade of an aggregate, and the overall grade of the totals
\* row of a subject worksheet, is the letter the scheme's ladder gives for
\* the SGPA of the subject list.
C17_OverallGradeFromSgpa ==
    /\ IsSet(studentResult)
          => studentResult.overallGrade
                 = LadderGrade(SchemeOf(aggPath), studentResult.sgpa)
    /\ (IsSet(subjectSheet) /\ "overallGrade" \in DOMAIN subjectSheet)
          => \E sg \in SgpaValues(subjects) :
                 subjectSheet.overallGrade = LadderGrade(SchemeOf(aggPath), sg)

\* C18: a computed result of a subject that is not external-only has
\* 40 <= marksObtained <= totalMarks.  (NaN satisfies no comparison.)
C18_MarksClamped ==
    (IsSet(subjectResult) /\ ~ExternalOnly(subjectResult)) =>
        /\ ~IsNaN(subjectResult.marksObtained)
        /\ subjectResult.marksObtained >= 40
        /\ subjectResult.marksObtained <= TotalMarksOf(subjectResult)

(***************************************************************************)
(* The comparative worksheet.                                              *)
(***************************************************************************)
\* C19: the comparison table has one row for each subject name of the cohort
\* and no other row; a row has a cell for each result in cohort order, the
\* subject's percentage for a result that has the subject and N/A for one
\* that lacks it, and its class average is the sum of the percentages of the
\* results that have the subject divided by their number, rounded.
C19_ComparisonRows ==
    IsSet(comparativeSheet) =>
        LET rows == comparativeSheet.subjectRows
        IN /\ {rows[k].name : k \in DOMAIN rows} = SubjectNames
           /\ Len(rows) = Cardinality(SubjectNames)
           /\ \A k \in DOMAIN rows :
                  /\ Len(rows[k].cells) = Len(results)
                  /\ \A i \in DOMAIN results :
                         rows[k].cells[i] =
                             IF i \in Holders(rows[k].name)
                             THEN [percent |-> MarksIn(i, rows[k].name)]
                             ELSE [na |-> TRUE]
                  /\ Holders(rows[k].name) # {}
                  /\ Nearest(rows[k].classAverage,
                             SumMarks(Holders(rows[k].name), rows[k].name),
                             Cardinality(Holders(rows[k].name)))

\* a cohort of three in which the third result lacks the first B.Tech
\* subject and the others have 57 and 90 in it: cells 57%, 90%, N/A and
\* the class average 74%
C19_Witness ==
    /\ IsSet(comparativeSheet)
    /\ \E k \in DOMAIN comparativeSheet.subjectRows :
          /\ comparativeSheet.subjectRows[k].name = btechSubjects[1].name
          /\ comparativeSheet.subjectRows[k].cells
                 = <<[percent |-> 57], [percent |-> 90], [na |-> TRUE]>>
          /\ comparativeSheet.subjectRows[k].classAverage = 74

\* the overall grades of the results that have one, in cohort order
GradesOfResults ==
    LET graded == SelectSeq(results, HasData)
    IN [i \in DOMAIN graded |-> graded[i].data.overallGrade]

\* C20: the class-average cell of the grade row is N/A when no result has a
\* grade; otherwise it is a grade of the cohort that no other grade
\* outnumbers, and every other grade with the same count was first
\* encountered later in the cohort.
C20_GradeAverageIsMode ==
    IsSet(comparativeSheet) =>
        LET grades == GradesOfResults
            mode == comparativeSheet.gradeRow.classAverage
            Count(g) == Cardinality({i \in DOMAIN grades : grades[i] = g})
            FirstAt(g) == CHOOSE i \in DOMAIN grades :
                              grades[i] = g /\ \A j \in 1..(i - 1) : grades[j] # g
        IN IF grades = <<>> THEN mode = "N/A"
           ELSE /\ mode \in Range(grades)
                /\ \A g \in Range(grades) :
                       \/ Count(g) < Count(mode)
                       \/ Count(g) = Count(mode) /\ FirstAt(mode) <= FirstAt(g)

\* three results with three different grades, one each: the class average is
\* the grade of the first result
C20_Witness ==
    /\ IsSet(comparativeSheet)
    /\ Len(GradesOfResults) = 3
    /\ Cardinality(Range(GradesOfResults)) = 3
    /\ comparativeSheet.gradeRow.classAverage = GradesOfResults[1]

(***************************************************************************)
(* The saved copy, the batch analysis view, the ids and the upload runs.   *)
(***************************************************************************)
\* C21: whenever the application is ready, the list of the localStorage item
\* (no item counting as the empty list) is the list in memory.
C21_StoreEqualsMemory ==
    appPhase = "ready" => storedResults = processedResults

\* C23: rendering the batch analysis leaves processedResults as it was.
C23_BatchAnalysisKeepsOrder ==
    [][ShowBatchAnalysis => processedResults' = processedResults]_vars

\* the list without its k-th entry
WithoutEntry(list, k) == SubSeq(list, 1, k - 1) \o SubSeq(list, k + 1, Len(list))

\* C24: the ids of processedResults are pairwise distinct, and a step that
\* shortens a list of two or more entries without emptying it removes exactly
\* one entry and keeps the others in their order.
C24_IdsDistinct ==
    /\ [](\A i, j \in DOMAIN processedResults :
              processedResults[i].id = processedResults[j].id => i = j)
    /\ [][(appPhase = "ready" /\ processedResults' # <<>>
              /\ Len(processedResults') < Len(processedResults))
             => \E k \in DOMAIN processedResults :
                    processedResults' = WithoutEntry(processedResults, k)]_vars

\* two uploads of two files each were made and the second result of the first
\* was deleted: the list holds the index-0 entries of both batches and the
\* index-1 entry of the second
C24_Witness ==
    /\ appPhase = "ready"
    /\ Len(processedResults) = 3
    /\ {processedResults[i].id : i \in DOMAIN processedResults}
           = {<<"", 0, 0>>, <<"", 1, 0>>, <<"", 1, 1>>}

\* C28: a run that has set uploading is followed by a state in which
\* uploading is false; while uploading stays set nothing more is appended,
\* and the reset after a success empties the selected files and leaves
\* processedResults as the run's single append made it.
C28_UploadingIsReset ==
    /\ uploading ~> ~uploading
    /\ [][/\ (uploading /\ uploading') => Len(processedResults') <= Len(processedResults)
          /\ (~uploading /\ uploading')
                => \/ Len(processedResults') = Len(processedResults) + Len(files)
                         /\ files # <<>>
                   \/ Len(processedResults') = Len(processedResults) + MaxDemo
                         /\ files = <<>>
          /\ (uploading /\ ~uploading' /\ appPhase' = "ready")
                => (files' = <<>> /\ processedResults' = processedResults)]_vars

\* a successful upload has appended its results and the reset is pending
C28_Witness ==
    uploading /\ files # <<>> /\ Len(processedResults) >= Len(files)

\* C27: the pass rate is consistent with grade points: when the grade
\* computed for a mark counts as passing, every grade of the same scheme with
\* more grade points counts as passing too.
C27_PassingFollowsPoints ==
    (IsSet(gradeRow) /\ CountsAsPassing(gradeRow.grade)) =>
        \A m2 \in (0 - MarkSlack)..(FullMarks + MarkSlack) :
            GradeRow(gradePath, m2).gradePoints > gradeRow.gradePoints
                => CountsAsPassing(GradeRow(gradePath, m2).grade)

\* C25: in the results list every selected id is the id of a current result,
\* so the 'N selected' count is the number of existing selected results.
C25_SelectionWithinResults ==
    appPhase = "ready" =>
        /\ Range(resultsList.selectedResults)
              \subseteq {processedResults[k].id : k \in DOMAIN processedResults}
        /\ Len(resultsList.selectedResults)
              = Cardinality({k \in DOMAIN processedResults :
                                processedResults[k].id \in Range(resultsList.selectedResults)})

\* C22: when the timer of the export-all button runs handleGenerateExcel,
\* generateExcel is invoked with exactly all current results, whatever the
\* selection was before the click.
C22_ExportAllExportsAll ==
    [][ExportAllTimer =>
          /\ Len(excelDownload'.calls) = Len(excelDownload.calls) + 1
          /\ excelDownload'.calls[Len(excelDownload'.calls)].results = processedResults]_vars

\* C26: in a combined export the worksheet names appended to the workbook
\* are pairwise distinct.
C26_SheetNamesDistinct ==
    \A c \in DOMAIN excelDownload.calls :
        excelDownload.calls[c].exportType = "combined" =>
            LET names == SheetNames(excelDownload.calls[c].results, TRUE)
            IN \A i, j \in DOMAIN names : names[i] = names[j] => i = j

\* C29: once every invocation of handleGenerateExcel has completed,
\* generatingExcel is false and exactly one of errorMessage and
\* successMessage is set; generateExcel is never invoked with an empty
\* selection.
C29_OneMessageAfterExport ==
    /\ \A c \in DOMAIN excelDownload.calls : excelDownload.calls[c].results # <<>>
    /\ (/\ excelDownload.timers = <<>> /\ excelDownload.running = <<>>
        /\ (excelDownload.calls # <<>> \/ excelDownload.errorMessage
               \/ excelDownload.successMessage))
          => /\ ~excelDownload.generatingExcel
             /\ excelDownload.errorMessage # excelDownload.successMessage

====
